---- MODULE Spec2Model ----
(***************************************************************************)
(* Board state machine of szsol-rs (SHENZHEN I/O Solitaire): card model,   *)
(* single-card moves, foundation moves, stack moves, dragon merge, auto    *)
(* advance and the win predicate, translated from src/src/card.rs and      *)
(* src/src/board.rs.                                                       *)
(***************************************************************************)
EXTENDS Integers, Sequences, FiniteSets, TLC

\* ------------------------------------------------------------------------
\* Bounds of the exploration
\* ------------------------------------------------------------------------
\* number of board operations called after the deal
MaxSteps == 3
\* largest start index passed to move_stack (dealt columns hold 5 cards, so
\* index 5 is already out of bounds for them)
MaxStart == 5
\* boards handed to is_won: how far a foundation counter may be below 9, and
\* how many cards the one non-empty column may hold
MaxShort == 1
MaxExtra == 1
\* decks handed to deal_from_deck: how many cards they may be short of, or
\* beyond, the 40 of a full deck
MaxOff == 2
\* the Game shell: number of commands entered, and largest stack depth N of
\* a `cc <src>:<N> <dst>` command
MaxCmds == 2
MaxDepth == 2

\* ------------------------------------------------------------------------
\* Program constants (board.rs)
\* ------------------------------------------------------------------------
NUM_COLUMNS == 8
NUM_FREE_CELLS == 3
NUM_FOUNDATIONS == 3
DECK_SIZE == 40
\* game.rs: the undo history keeps at most this many snapshots
HISTORY_CAP == 64

ColIdx == 0..(NUM_COLUMNS - 1)
CellIdx == 0..(NUM_FREE_CELLS - 1)
FoundIdx == 0..(NUM_FOUNDATIONS - 1)

\* ------------------------------------------------------------------------
\* Card model (card.rs)
\* ------------------------------------------------------------------------
Suit == <<"Red", "Green", "Black">>
Suits == {Suit[i] : i \in 1..3}

Numbered(s, v) == [kind |-> "Numbered", suit |-> s, value |-> v]
Dragon(s) == [kind |-> "Dragon", suit |-> s, value |-> 0]
Flower == [kind |-> "Flower", suit |-> "None", value |-> 0]
\* Option::None of an Option<Card>
NoCard == [kind |-> "None", suit |-> "None", value |-> 0]

\* can_stack_on that does not compare the suits
can_stack_on_any_suit(self, other) ==
    IF self.kind = "Numbered" /\ other.kind = "Numbered"
    THEN self.value + 1 = other.value
    ELSE FALSE

can_stack_on(self, other) ==
    IF self.kind = "Numbered" /\ other.kind = "Numbered"
    THEN self.suit /= other.suit /\ self.value + 1 = other.value
    ELSE FALSE

full_deck ==
    LET perSuit(s) == [v \in 1..9 |-> Numbered(s, v)] \o [k \in 1..4 |-> Dragon(s)]
    IN perSuit(Suit[1]) \o perSuit(Suit[2]) \o perSuit(Suit[3]) \o <<Flower>>

\* ------------------------------------------------------------------------
\* Board state (board.rs)
\* ------------------------------------------------------------------------
Empty == [tag |-> "Empty", card |-> NoCard, suit |-> "None"]
CardCell(c) == [tag |-> "Card", card |-> c, suit |-> "None"]
DragonLocked(s) == [tag |-> "DragonLocked", card |-> NoCard, suit |-> s]

is_empty(fc) == fc.tag = "Empty"
card(fc) == IF fc.tag = "Card" THEN fc.card ELSE NoCard

Column(c) == [kind |-> "Column", idx |-> c]
FreeCell(f) == [kind |-> "FreeCell", idx |-> f]
Locations == {Column(c) : c \in ColIdx} \cup {FreeCell(f) : f \in CellIdx}

suit_index(s) == CASE s = "Red" -> 0 [] s = "Green" -> 1 [] s = "Black" -> 2

\* deal_from_deck that fills one column after the other
deal_from_deck_by_column(deck) ==
    [columns |-> [c \in ColIdx |->
                    [h \in 1..(Cardinality({i \in 0..(Len(deck) - 1) : i % NUM_COLUMNS = c}))
                        |-> deck[c * (DECK_SIZE \div NUM_COLUMNS) + h]]],
     free_cells |-> [f \in CellIdx |-> Empty],
     foundations |-> [s \in FoundIdx |-> 0],
     flower_placed |-> FALSE]

deal_from_deck(deck) ==
    [columns |-> [c \in ColIdx |->
                    [h \in 1..(Cardinality({i \in 0..(Len(deck) - 1) : i % NUM_COLUMNS = c}))
                        |-> deck[(h - 1) * NUM_COLUMNS + c + 1]]],
     free_cells |-> [f \in CellIdx |-> Empty],
     foundations |-> [s \in FoundIdx |-> 0],
     flower_placed |-> FALSE]

column_top(b, col) ==
    IF Len(b.columns[col]) = 0 THEN NoCard
    ELSE b.columns[col][Len(b.columns[col])]

free_cell_card(b, slot) == card(b.free_cells[slot])

card_at(b, loc) ==
    IF loc.kind = "Column" THEN column_top(b, loc.idx)
    ELSE free_cell_card(b, loc.idx)

\* can_move that takes a DragonLocked free cell for a free one
can_move_into_locked(b, src, dst) ==
    LET c == card_at(b, src) IN
    IF c = NoCard THEN FALSE
    ELSE IF dst.kind = "FreeCell" THEN b.free_cells[dst.idx].tag /= "Card"
    ELSE IF src.kind = "Column" /\ src.idx = dst.idx THEN FALSE
    ELSE IF column_top(b, dst.idx) = NoCard THEN TRUE
    ELSE can_stack_on(c, column_top(b, dst.idx))

\* can_move that only refuses a locked free cell, not an occupied one
can_move_onto_occupied(b, src, dst) ==
    LET c == card_at(b, src) IN
    IF c = NoCard THEN FALSE
    ELSE IF dst.kind = "FreeCell" THEN b.free_cells[dst.idx].tag /= "DragonLocked"
    ELSE IF src.kind = "Column" /\ src.idx = dst.idx THEN FALSE
    ELSE IF column_top(b, dst.idx) = NoCard THEN TRUE
    ELSE can_stack_on(c, column_top(b, dst.idx))

\* can_move that lets any card onto any other column
can_move_unchecked_stacking(b, src, dst) ==
    LET c == card_at(b, src) IN
    IF c = NoCard THEN FALSE
    ELSE IF dst.kind = "FreeCell" THEN is_empty(b.free_cells[dst.idx])
    ELSE ~(src.kind = "Column" /\ src.idx = dst.idx)

\* can_move that lets only a Numbered 9 start an empty column
can_move_empty_takes_nine(b, src, dst) ==
    LET c == card_at(b, src) IN
    IF c = NoCard THEN FALSE
    ELSE IF dst.kind = "FreeCell" THEN is_empty(b.free_cells[dst.idx])
    ELSE IF src.kind = "Column" /\ src.idx = dst.idx THEN FALSE
    ELSE IF column_top(b, dst.idx) = NoCard THEN c.kind = "Numbered" /\ c.value = 9
    ELSE can_stack_on(c, column_top(b, dst.idx))

can_move(b, src, dst) ==
    LET c == card_at(b, src) IN
    IF c = NoCard THEN FALSE
    ELSE IF dst.kind = "FreeCell" THEN is_empty(b.free_cells[dst.idx])
    ELSE IF src.kind = "Column" /\ src.idx = dst.idx THEN FALSE
    ELSE IF column_top(b, dst.idx) = NoCard THEN TRUE
    ELSE can_stack_on(c, column_top(b, dst.idx))

\* can_move_to_foundation that accepts any value above the counter
can_move_to_foundation_skipping(b, src) ==
    LET c == card_at(b, src) IN
    IF c.kind = "Flower" THEN ~b.flower_placed
    ELSE IF c.kind = "Numbered" THEN b.foundations[suit_index(c.suit)] + 1 <= c.value
    ELSE FALSE

\* can_move_to_foundation that compares the counter itself with the value
can_move_to_foundation_off_by_one(b, src) ==
    LET c == card_at(b, src) IN
    IF c.kind = "Flower" THEN ~b.flower_placed
    ELSE IF c.kind = "Numbered" THEN b.foundations[suit_index(c.suit)] = c.value
    ELSE FALSE

can_move_to_foundation(b, src) ==
    LET c == card_at(b, src) IN
    IF c.kind = "Flower" THEN ~b.flower_placed
    ELSE IF c.kind = "Numbered" THEN b.foundations[suit_index(c.suit)] + 1 = c.value
    ELSE FALSE

\* take_card that reads the column top without popping it
take_card_keeps_column(b, loc) ==
    IF loc.kind = "Column"
    THEN [card |-> column_top(b, loc.idx), board |-> b]
    ELSE IF card(b.free_cells[loc.idx]) /= NoCard
         THEN [card |-> card(b.free_cells[loc.idx]),
               board |-> [b EXCEPT !.free_cells[loc.idx] = Empty]]
         ELSE [card |-> NoCard, board |-> b]

\* take_card returns the card taken (NoCard for None) and the board after it
take_card(b, loc) ==
    IF loc.kind = "Column"
    THEN IF Len(b.columns[loc.idx]) = 0
         THEN [card |-> NoCard, board |-> b]
         ELSE [card |-> column_top(b, loc.idx),
               board |-> [b EXCEPT !.columns[loc.idx] =
                                      SubSeq(@, 1, Len(@) - 1)]]
    ELSE IF card(b.free_cells[loc.idx]) /= NoCard
         THEN [card |-> card(b.free_cells[loc.idx]),
               board |-> [b EXCEPT !.free_cells[loc.idx] = Empty]]
         ELSE [card |-> NoCard, board |-> b]

\* place_card that slides the card under the column instead of on top
place_card_at_bottom(b, loc, c) ==
    IF loc.kind = "Column"
    THEN [b EXCEPT !.columns[loc.idx] = <<c>> \o @]
    ELSE [b EXCEPT !.free_cells[loc.idx] = CardCell(c)]

place_card(b, loc, c) ==
    IF loc.kind = "Column"
    THEN [b EXCEPT !.columns[loc.idx] = Append(@, c)]
    ELSE [b EXCEPT !.free_cells[loc.idx] = CardCell(c)]

\* Result of a fallible operation: res is "Ok", "Err" or "Panic" (a failing
\* unwrap/expect/unreachable), board is the board left behind.
Result(r, b) == [res |-> r, board |-> b]

\* the value of the board variable while no board has been created
NoBoard ==
    [columns |-> [c \in ColIdx |-> <<>>],
     free_cells |-> [f \in CellIdx |-> Empty],
     foundations |-> [s \in FoundIdx |-> 0],
     flower_placed |-> FALSE]

\* deal_from_deck that deals whatever number of cards it is given
deal_from_deck_unchecked(deck) == Result("Ok", deal_from_deck(deck))

\* deal_from_deck with its assert_eq!(deck.len(), 40): the assertion fails
\* before anything is built
deal_from_deck_checked(deck) ==
    IF Len(deck) /= DECK_SIZE THEN Result("Panic", NoBoard)
    ELSE Result("Ok", deal_from_deck(deck))

move_card(b, src, dst) ==
    IF ~can_move(b, src, dst) THEN Result("Err", b)
    ELSE LET t == take_card(b, src) IN
         IF t.card = NoCard THEN Result("Panic", t.board)
         ELSE Result("Ok", place_card(t.board, dst, t.card))

\* move_to_foundation that reads the card without taking it off the board
move_to_foundation_keeps_card(b, src) ==
    IF ~can_move_to_foundation(b, src) THEN Result("Err", b)
    ELSE LET c == card_at(b, src) IN
         IF c.kind = "Flower"
         THEN Result("Ok", [b EXCEPT !.flower_placed = TRUE])
         ELSE Result("Ok", [b EXCEPT !.foundations[suit_index(c.suit)] = @ + 1])

\* move_to_foundation that stores the value after the card's instead of
\* counting up by one
move_to_foundation_stores_next(b, src) ==
    IF ~can_move_to_foundation(b, src) THEN Result("Err", b)
    ELSE LET t == take_card(b, src) IN
         IF t.card = NoCard THEN Result("Panic", t.board)
         ELSE IF t.card.kind = "Flower"
              THEN Result("Ok", [t.board EXCEPT !.flower_placed = TRUE])
         ELSE IF t.card.kind = "Numbered"
              THEN Result("Ok", [t.board EXCEPT
                                   !.foundations[suit_index(t.card.suit)] = t.card.value + 1])
         ELSE Result("Panic", t.board)

move_to_foundation(b, src) ==
    IF ~can_move_to_foundation(b, src) THEN Result("Err", b)
    ELSE LET t == take_card(b, src) IN
         IF t.card = NoCard THEN Result("Panic", t.board)
         ELSE IF t.card.kind = "Flower"
              THEN Result("Ok", [t.board EXCEPT !.flower_placed = TRUE])
         ELSE IF t.card.kind = "Numbered"
              THEN Result("Ok", [t.board EXCEPT
                                   !.foundations[suit_index(t.card.suit)] = @ + 1])
         ELSE Result("Panic", t.board)

\* count_exposed_dragons that also counts dragons buried in a column
count_exposed_dragons_buried(b, s) ==
    LET in_cols == Cardinality({c \in ColIdx :
                       \E i \in 1..Len(b.columns[c]) : b.columns[c][i] = Dragon(s)})
        in_cells == Cardinality({f \in CellIdx : b.free_cells[f] = CardCell(Dragon(s))})
    IN in_cols + in_cells

count_exposed_dragons(b, s) ==
    LET in_cols == Cardinality({c \in ColIdx : column_top(b, c) = Dragon(s)})
        in_cells == Cardinality({f \in CellIdx : b.free_cells[f] = CardCell(Dragon(s))})
    IN in_cols + in_cells

\* can_merge_dragons that does not look for a receiving free cell
can_merge_dragons_no_slot_check(b, s) == count_exposed_dragons(b, s) = 4

can_merge_dragons(b, s) ==
    LET has_slot == \E f \in CellIdx :
                       is_empty(b.free_cells[f]) \/ b.free_cells[f] = CardCell(Dragon(s))
    IN IF ~has_slot THEN FALSE
       ELSE count_exposed_dragons(b, s) = 4
            /\ Cardinality({f \in CellIdx : b.free_cells[f] = CardCell(Dragon(s))}) <= 4

\* merge_dragons that leaves the dragons sitting in free cells where they are
merge_dragons_keeps_cells(b, s) ==
    IF ~can_merge_dragons(b, s) THEN Result("Err", b)
    ELSE
      LET cols == [c \in ColIdx |->
                     IF column_top(b, c) = Dragon(s)
                     THEN SubSeq(b.columns[c], 1, Len(b.columns[c]) - 1)
                     ELSE b.columns[c]]
          b1 == [b EXCEPT !.columns = cols]
      IN IF \A f \in CellIdx : ~is_empty(b.free_cells[f]) THEN Result("Panic", b1)
         ELSE LET slot == CHOOSE f \in CellIdx :
                              /\ is_empty(b.free_cells[f])
                              /\ \A g \in CellIdx : g < f => ~is_empty(b.free_cells[g])
              IN Result("Ok", [b1 EXCEPT !.free_cells[slot] = DragonLocked(s)])

\* merge_dragons that locks a cell but leaves the dragons on the column tops
merge_dragons_keeps_columns(b, s) ==
    IF ~can_merge_dragons(b, s) THEN Result("Err", b)
    ELSE
      LET cells == [f \in CellIdx |->
                      IF b.free_cells[f] = CardCell(Dragon(s)) THEN Empty
                      ELSE b.free_cells[f]]
          b1 == [b EXCEPT !.free_cells = cells]
      IN IF \A f \in CellIdx : ~is_empty(cells[f]) THEN Result("Panic", b1)
         ELSE LET slot == CHOOSE f \in CellIdx :
                              /\ is_empty(cells[f])
                              /\ \A g \in CellIdx : g < f => ~is_empty(cells[g])
              IN Result("Ok", [b1 EXCEPT !.free_cells[slot] = DragonLocked(s)])

\* merge_dragons that removes the four dragons but locks no free cell
merge_dragons_no_lock(b, s) ==
    IF ~can_merge_dragons(b, s) THEN Result("Err", b)
    ELSE
      LET cols == [c \in ColIdx |->
                     IF column_top(b, c) = Dragon(s)
                     THEN SubSeq(b.columns[c], 1, Len(b.columns[c]) - 1)
                     ELSE b.columns[c]]
          cells == [f \in CellIdx |->
                      IF b.free_cells[f] = CardCell(Dragon(s)) THEN Empty
                      ELSE b.free_cells[f]]
      IN Result("Ok", [b EXCEPT !.columns = cols, !.free_cells = cells])

merge_dragons(b, s) ==
    IF ~can_merge_dragons(b, s) THEN Result("Err", b)
    ELSE
      LET cols == [c \in ColIdx |->
                     IF column_top(b, c) = Dragon(s)
                     THEN SubSeq(b.columns[c], 1, Len(b.columns[c]) - 1)
                     ELSE b.columns[c]]
          cells == [f \in CellIdx |->
                      IF b.free_cells[f] = CardCell(Dragon(s)) THEN Empty
                      ELSE b.free_cells[f]]
          b1 == [b EXCEPT !.columns = cols, !.free_cells = cells]
      IN IF \A f \in CellIdx : ~is_empty(cells[f]) THEN Result("Panic", b1)
         ELSE LET slot == CHOOSE f \in CellIdx :
                              /\ is_empty(cells[f])
                              /\ \A g \in CellIdx : g < f => ~is_empty(cells[g])
              IN Result("Ok", [b1 EXCEPT !.free_cells[slot] = DragonLocked(s)])

Min(S) == CHOOSE x \in S : \A y \in S : x <= y

\* is_safe_to_auto that regards every Numbered card as safe
is_safe_to_auto_any_numbered(b, src) ==
    card_at(b, src).kind \in {"Flower", "Numbered"}

is_safe_to_auto(b, src) ==
    LET c == card_at(b, src) IN
    IF c.kind = "Flower" THEN TRUE
    ELSE IF c.kind = "Numbered"
         THEN LET min_found == Min({b.foundations[i] : i \in FoundIdx})
              IN c.value <= min_found + 1 \/ c.value = 1
    ELSE FALSE

\* the scan order of one pass: columns 0..7, then free cells 0..2
sources == [i \in 1..(NUM_COLUMNS + NUM_FREE_CELLS) |->
              IF i <= NUM_COLUMNS THEN Column(i - 1) ELSE FreeCell(i - 1 - NUM_COLUMNS)]

\* one pass of the for loop, from position i of sources on
RECURSIVE auto_pass(_, _, _)
\* The result carries, besides the board and the running count, the list of
\* moves made (source and board at the moment of the move) and whether a
\* move_to_foundation call panicked; its Err result is discarded as in the code.
auto_pass(b, i, moved) ==
    IF i > Len(sources)
    THEN [board |-> b, moved |-> moved, log |-> <<>>, panic |-> FALSE]
    ELSE IF can_move_to_foundation(b, sources[i]) /\ is_safe_to_auto(b, sources[i])
         THEN LET m == move_to_foundation(b, sources[i])
                  r == auto_pass(m.board, i + 1, moved + 1)
              IN [r EXCEPT !.log = <<[src |-> sources[i], before |-> b]>> \o @,
                           !.panic = @ \/ m.res = "Panic"]
         ELSE auto_pass(b, i + 1, moved)

\* auto_move that stops after a single pass over the sources
auto_loop_single_pass(b, moved) == auto_pass(b, 1, moved)

\* auto_move that starts its count afresh in every pass
RECURSIVE auto_loop_count_per_pass(_, _)
auto_loop_count_per_pass(b, moved) ==
    LET r == auto_pass(b, 1, 0) IN
    IF r.moved = 0 THEN r
    ELSE LET rest == auto_loop_count_per_pass(r.board, 0)
         IN [rest EXCEPT !.log = r.log \o @, !.panic = r.panic \/ @]

RECURSIVE auto_loop(_, _)
auto_loop(b, moved) ==
    LET r == auto_pass(b, 1, moved) IN
    IF r.moved = moved THEN r
    ELSE LET rest == auto_loop(r.board, r.moved)
         IN [rest EXCEPT !.log = r.log \o @, !.panic = r.panic \/ @]

auto_move(b) == auto_loop(b, 0)

\* is_won that does not look at the free cells
is_won_ignores_cells(b) ==
    /\ \A i \in FoundIdx : b.foundations[i] = 9
    /\ b.flower_placed
    /\ \A c \in ColIdx : Len(b.columns[c]) = 0

\* is_won that looks at the foundations and the flower only
is_won_foundations_only(b) ==
    /\ \A i \in FoundIdx : b.foundations[i] = 9
    /\ b.flower_placed

is_won(b) ==
    /\ \A i \in FoundIdx : b.foundations[i] = 9
    /\ b.flower_placed
    /\ \A c \in ColIdx : Len(b.columns[c]) = 0
    /\ \A f \in CellIdx : b.free_cells[f].tag /= "Card"

RECURSIVE stack_run(_, _, _)
stack_run(col_cards, i, len) ==
    IF i + 1 < Len(col_cards) /\ can_stack_on(col_cards[i + 2], col_cards[i + 1])
    THEN stack_run(col_cards, i + 1, len + 1)
    ELSE len

\* stack_len that tests each pair with the two cards swapped
RECURSIVE stack_run_swapped(_, _, _)
stack_run_swapped(col_cards, i, len) ==
    IF i + 1 < Len(col_cards) /\ can_stack_on(col_cards[i + 1], col_cards[i + 2])
    THEN stack_run_swapped(col_cards, i + 1, len + 1)
    ELSE len

stack_len_swapped(b, col, from_idx) ==
    IF from_idx >= Len(b.columns[col]) THEN 0
    ELSE stack_run_swapped(b.columns[col], from_idx, 1)

stack_len(b, col, from_idx) ==
    IF from_idx >= Len(b.columns[col]) THEN 0
    ELSE stack_run(b.columns[col], from_idx, 1)

\* move_stack that drains the source column before validating the placement
move_stack_drain_first(b, src_col, start_idx, dst_col) ==
    LET col_len == Len(b.columns[src_col]) IN
    IF src_col = dst_col THEN Result("Err", b)
    ELSE IF start_idx >= col_len THEN Result("Err", b)
    ELSE IF stack_len(b, src_col, start_idx) < col_len - start_idx THEN Result("Err", b)
    ELSE LET stack == SubSeq(b.columns[src_col], start_idx + 1, col_len)
             b1 == [b EXCEPT !.columns[src_col] = SubSeq(@, 1, start_idx)]
         IN IF ~(IF column_top(b, dst_col) = NoCard THEN TRUE
                 ELSE can_stack_on(stack[1], column_top(b, dst_col)))
            THEN Result("Err", b1)
            ELSE Result("Ok", [b1 EXCEPT !.columns[dst_col] = @ \o stack])

\* move_stack that validates only the placement of the bottom card
move_stack_unchecked_run(b, src_col, start_idx, dst_col) ==
    LET col_len == Len(b.columns[src_col]) IN
    IF src_col = dst_col THEN Result("Err", b)
    ELSE IF start_idx >= col_len THEN Result("Err", b)
    ELSE LET bottom_card == b.columns[src_col][start_idx + 1] IN
         IF ~(IF column_top(b, dst_col) = NoCard THEN TRUE
              ELSE can_stack_on(bottom_card, column_top(b, dst_col)))
         THEN Result("Err", b)
         ELSE LET stack == SubSeq(b.columns[src_col], start_idx + 1, col_len)
              IN Result("Ok", [b EXCEPT
                                 !.columns[src_col] = SubSeq(@, 1, start_idx),
                                 !.columns[dst_col] = @ \o stack])

\* move_stack that carries the slice over one card at a time from the top
RECURSIVE Reverse(_)
Reverse(q) == IF q = <<>> THEN <<>> ELSE Append(Reverse(Tail(q)), Head(q))

move_stack_reversed(b, src_col, start_idx, dst_col) ==
    LET col_len == Len(b.columns[src_col]) IN
    IF src_col = dst_col THEN Result("Err", b)
    ELSE IF start_idx >= col_len THEN Result("Err", b)
    ELSE IF stack_len(b, src_col, start_idx) < col_len - start_idx THEN Result("Err", b)
    ELSE LET bottom_card == b.columns[src_col][start_idx + 1] IN
         IF ~(IF column_top(b, dst_col) = NoCard THEN TRUE
              ELSE can_stack_on(bottom_card, column_top(b, dst_col)))
         THEN Result("Err", b)
         ELSE LET stack == SubSeq(b.columns[src_col], start_idx + 1, col_len)
              IN Result("Ok", [b EXCEPT
                                 !.columns[src_col] = SubSeq(@, 1, start_idx),
                                 !.columns[dst_col] = @ \o Reverse(stack)])

\* move_stack that allows at most one card more than there are Empty free cells
move_stack_cell_limited(b, src_col, start_idx, dst_col) ==
    LET col_len == Len(b.columns[src_col]) IN
    IF src_col = dst_col THEN Result("Err", b)
    ELSE IF start_idx >= col_len THEN Result("Err", b)
    ELSE IF stack_len(b, src_col, start_idx) < col_len - start_idx THEN Result("Err", b)
    ELSE IF col_len - start_idx
              > Cardinality({f \in CellIdx : is_empty(b.free_cells[f])}) + 1
         THEN Result("Err", b)
    ELSE LET bottom_card == b.columns[src_col][start_idx + 1] IN
         IF ~(IF column_top(b, dst_col) = NoCard THEN TRUE
              ELSE can_stack_on(bottom_card, column_top(b, dst_col)))
         THEN Result("Err", b)
         ELSE LET stack == SubSeq(b.columns[src_col], start_idx + 1, col_len)
              IN Result("Ok", [b EXCEPT
                                 !.columns[src_col] = SubSeq(@, 1, start_idx),
                                 !.columns[dst_col] = @ \o stack])

\* move_stack that does not check the bottom card against the destination
move_stack_unchecked_placement(b, src_col, start_idx, dst_col) ==
    LET col_len == Len(b.columns[src_col]) IN
    IF src_col = dst_col THEN Result("Err", b)
    ELSE IF start_idx >= col_len THEN Result("Err", b)
    ELSE IF stack_len(b, src_col, start_idx) < col_len - start_idx THEN Result("Err", b)
    ELSE LET stack == SubSeq(b.columns[src_col], start_idx + 1, col_len)
         IN Result("Ok", [b EXCEPT
                            !.columns[src_col] = SubSeq(@, 1, start_idx),
                            !.columns[dst_col] = @ \o stack])

move_stack(b, src_col, start_idx, dst_col) ==
    LET col_len == Len(b.columns[src_col]) IN
    IF src_col = dst_col THEN Result("Err", b)
    ELSE IF start_idx >= col_len THEN Result("Err", b)
    ELSE IF stack_len(b, src_col, start_idx) < col_len - start_idx THEN Result("Err", b)
    ELSE LET bottom_card == b.columns[src_col][start_idx + 1] IN
         IF ~(IF column_top(b, dst_col) = NoCard THEN TRUE
              ELSE can_stack_on(bottom_card, column_top(b, dst_col)))
         THEN Result("Err", b)
         ELSE LET stack == SubSeq(b.columns[src_col], start_idx + 1, col_len)
              IN Result("Ok", [b EXCEPT
                                 !.columns[src_col] = SubSeq(@, 1, start_idx),
                                 !.columns[dst_col] = @ \o stack])

\* ------------------------------------------------------------------------
\* Deals
\* ------------------------------------------------------------------------
R(v) == Numbered("Red", v)
G(v) == Numbered("Green", v)
B(v) == Numbered("Black", v)
RD == Dragon("Red")
GD == Dragon("Green")
BD == Dragon("Black")

\* a shuffled deck, in dealing order (8 cards per row, bottom row first)
DeckA ==
    << G(2), G(3), G(4), R(9), B(2), R(3), B(3), B(4),
       G(7), G(8), G(9), B(5), B(7), R(2), B(8), B(9),
       BD,   BD,   BD,   BD,   R(5), B(1), R(6), R(7),
       GD,   GD,   GD,   GD,   R(8), G(1), G(5), G(6),
       RD,   RD,   RD,   RD,   Flower, R(1), R(4), B(6) >>

\* a second shuffled deck
DeckB ==
    << R(7), R(8), R(9), G(4), G(5), G(6), G(8), G(9),
       B(1), B(3), B(6), B(7), B(8), B(9), R(3), R(5),
       RD,   RD,   BD,   BD,   G(7), G(1), G(2), G(3),
       RD,   RD,   Flower, GD, R(6), B(2), B(4), BD,
       GD,   GD,   GD,   R(1), B(5), R(4), R(2), BD >>

Decks == {DeckA, DeckB}

IsPermutationOfFullDeck(d) ==
    /\ Len(d) = DECK_SIZE
    /\ \A c \in {full_deck[i] : i \in 1..DECK_SIZE} :
          Cardinality({i \in 1..DECK_SIZE : d[i] = c})
            = Cardinality({i \in 1..DECK_SIZE : full_deck[i] = c})

\* ------------------------------------------------------------------------
\* State machine: a board dealt from a deck, then any sequence of calls
\* ------------------------------------------------------------------------
VARIABLES deck, board, prev, last, merged, steps, history, pc
vars == <<deck, board, prev, last, merged, steps, history, pc>>

NoLoc == [kind |-> "None", idx |-> 0]
Call(op, res, src, dst, start, s, n) ==
    [op |-> op, res |-> res, src |-> src, dst |-> dst, start |-> start,
     suit |-> s, n |-> n]

\* deck: the dealt deck; board: the Board; prev: the board the most recent
\* call was made on; last: that call with its arguments and result; merged:
\* the suits whose merge_dragons has returned Ok so far; steps: number of
\* calls made; history: the undo snapshots of the Game shell; pc: where the
\* shell's loop stands ("api" while the Board is driven directly).
Init ==
    /\ deck \in {d \in Decks : IsPermutationOfFullDeck(d)}
    /\ board = deal_from_deck(deck)
    /\ prev = board
    /\ last = Call("deal", "Ok", NoLoc, NoLoc, 0, "None", 0)
    /\ merged = {}
    /\ steps = 0
    /\ history = <<>>
    /\ pc = "api"

\* A call is made on a live board.  A rejected call is recorded with its
\* arguments and explored as a leaf (the play goes on from the state the
\* rejected call was made in); a panic ends the program.
Live == last.res = "Ok"
Running == steps < MaxSteps /\ Live

MoveCard ==
    /\ Running
    /\ \E src \in Locations, dst \in Locations :
         LET r == move_card(board, src, dst) IN
         /\ board' = r.board
         /\ last' = Call("move_card", r.res, src, dst, 0, "None", 0)
    /\ prev' = board
    /\ steps' = steps + 1
    /\ UNCHANGED <<deck, merged, history, pc>>

MoveToFoundation ==
    /\ Running
    /\ \E src \in Locations :
         LET r == move_to_foundation(board, src) IN
         /\ board' = r.board
         /\ last' = Call("move_to_foundation", r.res, src, NoLoc, 0, "None", 0)
    /\ prev' = board
    /\ steps' = steps + 1
    /\ UNCHANGED <<deck, merged, history, pc>>

MoveStack ==
    /\ Running
    /\ \E src_col \in ColIdx, dst_col \in ColIdx, start_idx \in 0..MaxStart :
         LET r == move_stack(board, src_col, start_idx, dst_col) IN
         /\ board' = r.board
         /\ last' = Call("move_stack", r.res, Column(src_col), Column(dst_col),
                         start_idx, "None", 0)
    /\ prev' = board
    /\ steps' = steps + 1
    /\ UNCHANGED <<deck, merged, history, pc>>

MergeDragons ==
    /\ Running
    /\ \E s \in Suits :
         LET r == merge_dragons(board, s) IN
         /\ board' = r.board
         /\ last' = Call("merge_dragons", r.res, NoLoc, NoLoc, 0, s, 0)
         /\ merged' = IF r.res = "Ok" THEN merged \cup {s} ELSE merged
    /\ prev' = board
    /\ steps' = steps + 1
    /\ UNCHANGED <<deck, history, pc>>

AutoMove ==
    /\ Running
    /\ LET r == auto_move(board) IN
         /\ board' = r.board
         /\ last' = Call("auto_move", IF r.panic THEN "Panic" ELSE "Ok",
                          NoLoc, NoLoc, 0, "None", r.moved)
    /\ prev' = board
    /\ steps' = steps + 1
    /\ UNCHANGED <<deck, merged, history, pc>>

Next == MoveCard \/ MoveToFoundation \/ MoveStack \/ MergeDragons \/ AutoMove

Spec == Init /\ [][Next]_vars

TypeOK ==
    /\ steps \in 0..MaxSteps
    /\ last.res \in {"Ok", "Err", "Panic"}
    /\ merged \subseteq Suits
\* ------------------------------------------------------------------------
\* Helpers of the properties
\* ------------------------------------------------------------------------
CardTypes == {Numbered(s, v) : s \in Suits, v \in 1..9} \cup {Dragon(s) : s \in Suits}
               \cup {Flower}

\* positions <<column, height>> that hold a card
Positions(b) == UNION {{<<c, i>> : i \in 1..Len(b.columns[c])} : c \in ColIdx}

InColumns(b, c) == Cardinality({p \in Positions(b) : b.columns[p[1]][p[2]] = c})
InCells(b, c) == Cardinality({f \in CellIdx : b.free_cells[f] = CardCell(c)})
\* cards that left the table for a foundation or the flower slot
VirtuallyPlaced(b, c) ==
    IF c.kind = "Numbered" /\ c.value <= b.foundations[suit_index(c.suit)] THEN 1
    ELSE IF c.kind = "Flower" /\ b.flower_placed THEN 1
    ELSE 0
\* the four dragons a DragonLocked cell stands for
InLocks(b, c) ==
    IF c.kind = "Dragon"
    THEN 4 * Cardinality({f \in CellIdx : b.free_cells[f] = DragonLocked(c.suit)})
    ELSE 0
InDeck(d, c) == Cardinality({i \in 1..Len(d) : d[i] = c})

\* ------------------------------------------------------------------------
\* C1 - conservation
\* ------------------------------------------------------------------------
\* C1 as stated: in every state reached from a deal by successful calls, the
\* cards in the columns and free cells plus the virtually placed cards
\* (foundation counters, flower flag) are exactly the dealt 40-card multiset.
C1_ConservationAsStated ==
    Live =>
      \A c \in CardTypes :
          InColumns(board, c) + InCells(board, c) + VirtuallyPlaced(board, c)
            = InDeck(deck, c)

\* C1 amended: the same multiset equality once every DragonLocked(s) cell is
\* counted as the four Dragon(s) cards it absorbed.
C1_Conservation ==
    Live =>
      \A c \in CardTypes :
          InColumns(board, c) + InCells(board, c) + VirtuallyPlaced(board, c)
            + InLocks(board, c) = InDeck(deck, c)

\* a merge, then a foundation move: both kinds of cards have left the table
C1_Witness ==
    /\ merged /= {}
    /\ last.op = "move_to_foundation" /\ last.res = "Ok"
    /\ \E i \in FoundIdx : board.foundations[i] > 0

\* ------------------------------------------------------------------------
\* C2 - a rejected call changes nothing
\* ------------------------------------------------------------------------
\* C2: every move_card, move_to_foundation, move_stack and merge_dragons
\* call (indices in range) that returns Err leaves columns, free cells,
\* foundations and flower flag as they were before the call.
C2_IllegalMoveNoOp ==
    (last.op \in {"move_card", "move_to_foundation", "move_stack", "merge_dragons"}
       /\ last.res = "Err")
    => board = prev

\* a valid run rejected only because of its destination, after the board
\* has already been played on
C2_Witness ==
    /\ last.op = "move_stack" /\ last.res = "Err"
    /\ last.src.idx /= last.dst.idx
    /\ last.start < Len(prev.columns[last.src.idx])
    /\ stack_len(prev, last.src.idx, last.start)
         = Len(prev.columns[last.src.idx]) - last.start
    /\ prev /= deal_from_deck(deck)

\* ------------------------------------------------------------------------
\* C3 - foundation monotonicity
\* ------------------------------------------------------------------------
\* C3: no operation lowers a foundation counter; a successful
\* move_to_foundation of Numbered(s,v) happens only when foundations[s] = v-1
\* and raises exactly that counter by exactly one.
C3_FoundationMonotonic ==
    /\ \A i \in FoundIdx : board.foundations[i] >= prev.foundations[i]
    /\ (last.op = "move_to_foundation" /\ last.res = "Ok")
       => LET c == card_at(prev, last.src) IN
          IF c.kind = "Numbered"
          THEN /\ prev.foundations[suit_index(c.suit)] = c.value - 1
               /\ \A i \in FoundIdx :
                     board.foundations[i] =
                       IF i = suit_index(c.suit) THEN prev.foundations[i] + 1
                       ELSE prev.foundations[i]
          ELSE board.foundations = prev.foundations

\* a counter has gone from 1 to 2 by a foundation move
C3_Witness ==
    /\ last.op = "move_to_foundation" /\ last.res = "Ok"
    /\ \E i \in FoundIdx : board.foundations[i] = 2
\* ------------------------------------------------------------------------
\* C4 - lock permanence
\* ------------------------------------------------------------------------
\* C4: a free cell that is DragonLocked(s) is still DragonLocked(s) after any
\* call; a move_card with that cell as source or destination, and a
\* move_to_foundation from it, are rejected.
C4_LockPermanence ==
    \A f \in CellIdx :
        prev.free_cells[f].tag = "DragonLocked" =>
          /\ board.free_cells[f] = prev.free_cells[f]
          /\ (last.op = "move_card" /\ (last.src = FreeCell(f) \/ last.dst = FreeCell(f)))
               => last.res = "Err"
          /\ (last.op = "move_to_foundation" /\ last.src = FreeCell(f))
               => last.res = "Err"

\* a card that could be parked is sent to a locked cell
C4_Witness ==
    /\ last.op = "move_card" /\ last.res = "Err"
    /\ last.dst.kind = "FreeCell"
    /\ prev.free_cells[last.dst.idx].tag = "DragonLocked"
    /\ card_at(prev, last.src) /= NoCard
    /\ \E g \in CellIdx : prev.free_cells[g].tag = "Empty"

\* ------------------------------------------------------------------------
\* C5 - dragon-merge precondition
\* ------------------------------------------------------------------------
\* the Dragon(s) cards that are a column's top card or a free cell's card
ExposedDragons(b, s) ==
    {Column(c) : c \in {k \in ColIdx : Len(b.columns[k]) > 0
                                       /\ b.columns[k][Len(b.columns[k])] = Dragon(s)}}
      \cup {FreeCell(f) : f \in {g \in CellIdx : b.free_cells[g].tag = "Card"
                                       /\ b.free_cells[g].card = Dragon(s)}}
ReceivingSlot(b, s) ==
    \E f \in CellIdx : \/ b.free_cells[f].tag = "Empty"
                       \/ (b.free_cells[f].tag = "Card" /\ b.free_cells[f].card = Dragon(s))

\* C5: on every board reached, merge_dragons(s) succeeds if and only if
\* exactly four Dragon(s) are exposed (column top or free-cell card) and some
\* free cell is Empty or holds a Dragon(s).
C5_MergePrecondition ==
    Live =>
      \A s \in Suits :
          (merge_dragons(board, s).res = "Ok")
            <=> (Cardinality(ExposedDragons(board, s)) = 4 /\ ReceivingSlot(board, s))

\* four dragons on column tops, every free cell taken by something else
C5_Witness ==
    /\ Live
    /\ \E s \in Suits :
          /\ Cardinality({c \in ColIdx : column_top(board, c) = Dragon(s)}) = 4
          /\ \A f \in CellIdx : board.free_cells[f].tag = "Card"
          /\ merge_dragons(board, s).res = "Err"

\* ------------------------------------------------------------------------
\* C6 - dragon-merge effect
\* ------------------------------------------------------------------------
Front(q) == SubSeq(q, 1, Len(q) - 1)

\* C6: a successful merge_dragons(s) pops the Dragon(s) from every column
\* whose top it was, empties the free cells that held one, turns exactly one
\* free cell that was Empty or held a Dragon(s) into DragonLocked(s), and
\* changes nothing else.
C6_MergeEffect ==
    (last.op = "merge_dragons" /\ last.res = "Ok") =>
      LET s == last.suit
          locked == {f \in CellIdx : board.free_cells[f] = DragonLocked(s)
                                     /\ prev.free_cells[f] /= DragonLocked(s)}
      IN /\ \A c \in ColIdx :
               board.columns[c] =
                 IF Column(c) \in ExposedDragons(prev, s) THEN Front(prev.columns[c])
                 ELSE prev.columns[c]
         /\ Cardinality(locked) = 1
         /\ \A f \in locked : \/ prev.free_cells[f] = Empty
                              \/ prev.free_cells[f] = CardCell(Dragon(s))
         /\ \A f \in CellIdx \ locked :
               board.free_cells[f] =
                 IF FreeCell(f) \in ExposedDragons(prev, s) THEN Empty
                 ELSE prev.free_cells[f]
         /\ ExposedDragons(board, s) = {}
         /\ board.foundations = prev.foundations
         /\ board.flower_placed = prev.flower_placed

\* a merge that took dragons from two free cells and from column tops, with
\* the remaining free cell holding another card
C6_Witness ==
    /\ last.op = "merge_dragons" /\ last.res = "Ok"
    /\ Cardinality({f \in CellIdx : prev.free_cells[f] = CardCell(Dragon(last.suit))}) = 1
    /\ \E f \in CellIdx : prev.free_cells[f].tag = "Card"
                          /\ prev.free_cells[f].card /= Dragon(last.suit)
                          /\ board.free_cells[f] = prev.free_cells[f]

\* ------------------------------------------------------------------------
\* C7 - one merge per suit
\* ------------------------------------------------------------------------
\* C7: once merge_dragons(s) has succeeded, merge_dragons(s) fails on every
\* board reached afterwards.
C7_MergeOnce ==
    \A s \in merged : merge_dragons(board, s).res /= "Ok"

\* a second merge of a merged suit was tried, with a free cell still Empty
C7_Witness ==
    /\ last.op = "merge_dragons" /\ last.res = "Err"
    /\ last.suit \in merged
    /\ \E f \in CellIdx : board.free_cells[f] = Empty
\* ------------------------------------------------------------------------
\* C8 - move_card agrees with can_move, and its effect
\* ------------------------------------------------------------------------
\* C8: move_card(src,dst) returns Ok exactly when can_move(src,dst) holds on
\* the board it is called on; on Ok the card at src leaves src and becomes
\* the top of the destination column or the content of the destination free
\* cell, and nothing else changes.
C8_MoveCardEffect ==
    last.op = "move_card" =>
      LET moved == IF last.src.kind = "Column"
                   THEN (IF Len(prev.columns[last.src.idx]) = 0 THEN NoCard
                         ELSE prev.columns[last.src.idx][Len(prev.columns[last.src.idx])])
                   ELSE prev.free_cells[last.src.idx].card
      IN /\ (last.res = "Ok") <=> can_move(prev, last.src, last.dst)
         /\ last.res = "Ok" =>
              /\ moved \in CardTypes
              /\ \A c \in ColIdx :
                    board.columns[c] =
                      IF last.src = Column(c) THEN Front(prev.columns[c])
                      ELSE IF last.dst = Column(c) THEN Append(prev.columns[c], moved)
                      ELSE prev.columns[c]
              /\ \A f \in CellIdx :
                    board.free_cells[f] =
                      IF last.dst = FreeCell(f) THEN CardCell(moved)
                      ELSE IF last.src = FreeCell(f) THEN Empty
                      ELSE prev.free_cells[f]
              /\ board.foundations = prev.foundations
              /\ board.flower_placed = prev.flower_placed

\* a parked card went back onto a non-empty column
C8_Witness ==
    /\ last.op = "move_card" /\ last.res = "Ok"
    /\ last.src.kind = "FreeCell" /\ last.dst.kind = "Column"
    /\ Len(prev.columns[last.dst.idx]) > 0

\* ------------------------------------------------------------------------
\* C9 - single-card move legality
\* ------------------------------------------------------------------------
HoldsCard(b, loc) ==
    IF loc.kind = "Column" THEN Len(b.columns[loc.idx]) > 0
    ELSE b.free_cells[loc.idx].tag = "Card"
CardHeld(b, loc) ==
    IF loc.kind = "Column" THEN b.columns[loc.idx][Len(b.columns[loc.idx])]
    ELSE b.free_cells[loc.idx].card
LegalSingleMove(b, src, dst) ==
    /\ HoldsCard(b, src)
    /\ \/ dst.kind = "FreeCell" /\ b.free_cells[dst.idx].tag = "Empty"
       \/ /\ dst.kind = "Column"
          /\ ~(src.kind = "Column" /\ src.idx = dst.idx)
          /\ \/ Len(b.columns[dst.idx]) = 0
             \/ can_stack_on(CardHeld(b, src),
                             b.columns[dst.idx][Len(b.columns[dst.idx])])

\* C9: on every board reached, can_move(src,dst) holds if and only if src
\* holds a card and dst is an Empty free cell, or a column other than the
\* source column that is empty or whose top the moved card can stack on.
C9_CanMoveLegality ==
    Live =>
      \A src \in Locations, dst \in Locations :
          can_move(board, src, dst) <=> LegalSingleMove(board, src, dst)

\* a board with a locked cell, a parked card that fits a column, and an
\* Empty cell
C9_Witness ==
    /\ Live
    /\ \E f \in CellIdx, g \in CellIdx, h \in CellIdx, c \in ColIdx :
          /\ board.free_cells[f].tag = "DragonLocked"
          /\ board.free_cells[g].tag = "Card"
          /\ board.free_cells[h].tag = "Empty"
          /\ Len(board.columns[c]) > 0
          /\ can_move(board, FreeCell(g), Column(c))
          /\ ~can_move(board, Column(c), FreeCell(g))
          /\ ~can_move(board, FreeCell(f), FreeCell(h))

\* ------------------------------------------------------------------------
\* C10 - foundation eligibility
\* ------------------------------------------------------------------------
Eligible(b, src) ==
    /\ HoldsCard(b, src)
    /\ LET c == CardHeld(b, src) IN
       \/ c = Flower /\ ~b.flower_placed
       \/ \E s \in Suits, v \in 1..9 :
             c = Numbered(s, v) /\ b.foundations[suit_index(s)] = v - 1

\* C10: on every board reached, can_move_to_foundation(src) holds if and
\* only if the card at src is the Flower with the flower not placed, or a
\* Numbered(s,v) with foundations[s] = v-1; never for a Dragon, an empty
\* column, an Empty or a DragonLocked free cell.
C10_FoundationEligibility ==
    Live =>
      \A src \in Locations :
          can_move_to_foundation(board, src) <=> Eligible(board, src)

\* a parked 2 that has become eligible, next to a parked dragon and a
\* column top that is not the next value of its suit
C10_Witness ==
    /\ Live
    /\ \E f \in CellIdx, g \in CellIdx, c \in ColIdx :
          /\ board.free_cells[f].tag = "Card"
          /\ board.free_cells[f].card.kind = "Numbered"
          /\ board.free_cells[f].card.value = 2
          /\ can_move_to_foundation(board, FreeCell(f))
          /\ board.free_cells[g].tag = "Card"
          /\ board.free_cells[g].card.kind = "Dragon"
          /\ column_top(board, c).kind = "Numbered"
          /\ ~can_move_to_foundation(board, Column(c))

\* ---------------------------------------------------------------------
\* C11  Foundation move effect.  A successful move_to_foundation(src)
\* removes exactly the card at src; for a Numbered card the counter of its
\* suit grows by one while the other two counters and the flower flag keep
\* their values; for the Flower the flag is set and all three counters
\* keep their values.  Every other column and free cell is unchanged.
C11_FoundationMoveEffect ==
    (last.op = "move_to_foundation" /\ last.res = "Ok") =>
        LET c == card_at(prev, last.src) IN
        /\ c.kind \in {"Numbered", "Flower"}
        /\ IF last.src.kind = "Column"
           THEN /\ prev.columns[last.src.idx] = Append(board.columns[last.src.idx], c)
                /\ \A k \in ColIdx \ {last.src.idx} : board.columns[k] = prev.columns[k]
                /\ board.free_cells = prev.free_cells
           ELSE /\ prev.free_cells[last.src.idx] = CardCell(c)
                /\ board.free_cells[last.src.idx] = Empty
                /\ \A f \in CellIdx \ {last.src.idx} :
                       board.free_cells[f] = prev.free_cells[f]
                /\ board.columns = prev.columns
        /\ IF c.kind = "Numbered"
           THEN /\ board.foundations[suit_index(c.suit)]
                       = prev.foundations[suit_index(c.suit)] + 1
                /\ \A i \in FoundIdx \ {suit_index(c.suit)} :
                       board.foundations[i] = prev.foundations[i]
                /\ board.flower_placed = prev.flower_placed
           ELSE /\ board.flower_placed
                /\ ~prev.flower_placed
                /\ board.foundations = prev.foundations

\* a Numbered card has gone from a free cell to its foundation while another
\* foundation counter was already above zero
C11_Witness ==
    /\ last.op = "move_to_foundation" /\ last.res = "Ok"
    /\ last.src.kind = "FreeCell"
    /\ card_at(prev, last.src).kind = "Numbered"
    /\ \E i \in FoundIdx \ {suit_index(card_at(prev, last.src).suit)} :
           prev.foundations[i] > 0

\* ---------------------------------------------------------------------
\* Stack moves, stated independently of stack_len
\* ---------------------------------------------------------------------
\* every adjacent pair of column col from 0-based index start up to the top
\* is a legal stacking of the upper card on the lower one
ValidSlice(b, col, start) ==
    \A k \in (start + 1)..(Len(b.columns[col]) - 1) :
        can_stack_on(b.columns[col][k + 1], b.columns[col][k])

LegalStackMove(b, src_col, start, dst_col) ==
    /\ src_col /= dst_col
    /\ start < Len(b.columns[src_col])
    /\ ValidSlice(b, src_col, start)
    /\ \/ b.columns[dst_col] = <<>>
       \/ can_stack_on(b.columns[src_col][start + 1], column_top(b, dst_col))

\* C12  Stack-move legality.  move_stack(src_col, start, dst_col) succeeds
\* if and only if the two columns differ, start is below the length of
\* src_col, every adjacent pair of the slice from start to the top stacks
\* legally, and dst_col is empty or its top accepts the card at start.  In
\* particular a slice whose run breaks before the top is rejected even
\* when its first cards form a valid run.
C12_StackMoveLegality ==
    last.op = "move_stack" =>
        /\ last.res \in {"Ok", "Err"}
        /\ last.res = "Ok" <=>
               LegalStackMove(prev, last.src.idx, last.start, last.dst.idx)

\* a slice of three or more cards was rejected although its two lowest
\* cards form a valid run and the two columns differ
C12_Witness ==
    /\ last.op = "move_stack" /\ last.res = "Err"
    /\ last.src.idx /= last.dst.idx
    /\ last.start + 2 < Len(prev.columns[last.src.idx])
    /\ can_stack_on(prev.columns[last.src.idx][last.start + 2],
                    prev.columns[last.src.idx][last.start + 1])
    /\ ~ValidSlice(prev, last.src.idx, last.start)

\* C13  Stack-move effect.  After a successful move_stack(src_col, start,
\* dst_col) the source column is its first `start` cards, the destination
\* column is its old contents followed by the old slice from start to the
\* top in the same order, and the other columns, the free cells, the
\* foundations and the flower flag are unchanged.
C13_StackMoveEffect ==
    (last.op = "move_stack" /\ last.res = "Ok") =>
        LET s == last.src.idx
            d == last.dst.idx
            old == prev.columns[s]
        IN /\ Len(board.columns[s]) = last.start
           /\ \A k \in 1..last.start : board.columns[s][k] = old[k]
           /\ Len(board.columns[d]) = Len(prev.columns[d]) + Len(old) - last.start
           /\ \A k \in 1..Len(prev.columns[d]) :
                  board.columns[d][k] = prev.columns[d][k]
           /\ \A k \in 1..(Len(old) - last.start) :
                  board.columns[d][Len(prev.columns[d]) + k] = old[last.start + k]
           /\ \A c \in ColIdx \ {s, d} : board.columns[c] = prev.columns[c]
           /\ board.free_cells = prev.free_cells
           /\ board.foundations = prev.foundations
           /\ board.flower_placed = prev.flower_placed

\* a run of three cards has arrived on an empty column in its old order
C13_Witness ==
    /\ last.op = "move_stack" /\ last.res = "Ok"
    /\ prev.columns[last.dst.idx] = <<>>
    /\ Len(prev.columns[last.src.idx]) - last.start = 3
    /\ board.columns[last.dst.idx]
           = SubSeq(prev.columns[last.src.idx], last.start + 1,
                    Len(prev.columns[last.src.idx]))

\* the length of the maximal run of column col beginning at 0-based index
\* start: all pairs inside it stack legally, and it ends at the column's
\* top or at the first pair that does not
MaximalRun(b, col, start) ==
    LET cs == b.columns[col] IN
    CHOOSE n \in 1..(Len(cs) - start) :
        /\ \A k \in 1..(n - 1) : can_stack_on(cs[start + k + 1], cs[start + k])
        /\ \/ start + n = Len(cs)
           \/ ~can_stack_on(cs[start + n + 1], cs[start + n])

\* C14  stack_len(col, start) is 0 when start is at or beyond the column's
\* length, and otherwise the length of the maximal run beginning at start,
\* which stops at the first pair breaking the stacking rule or at the
\* column's end.
C14_StackLen ==
    Live =>
        \A col \in ColIdx : \A start \in 0..MaxStart :
            stack_len(board, col, start)
                = IF start >= Len(board.columns[col]) THEN 0
                  ELSE MaximalRun(board, col, start)

\* after a stack move some column holds a run of two that stops below the
\* column's top, and some start index lies beyond a column's length
C14_Witness ==
    /\ last.op = "move_stack" /\ last.res = "Ok"
    /\ \E col \in ColIdx : \E start \in 0..MaxStart :
           /\ start + 2 < Len(board.columns[col])
           /\ stack_len(board, col, start) = 2
    /\ \E col \in ColIdx : \E start \in 0..MaxStart :
           /\ start >= Len(board.columns[col])
           /\ stack_len(board, col, start) = 0

\* C15  Stack moves are not limited by free-cell availability.  On every
\* board, whatever the number of Empty free cells and of empty columns, a
\* move_stack of a valid run of any length onto a column that is empty or
\* whose top accepts the run's lowest card succeeds.
C15_StackMoveUnlimited ==
    Live =>
        \A src_col \in ColIdx : \A start \in 0..MaxStart :
            (start < Len(board.columns[src_col]) /\ ValidSlice(board, src_col, start)) =>
                \A dst_col \in ColIdx \ {src_col} :
                    (\/ board.columns[dst_col] = <<>>
                     \/ can_stack_on(board.columns[src_col][start + 1],
                                     column_top(board, dst_col)))
                    => move_stack(board, src_col, start, dst_col).res = "Ok"

\* all three free cells are occupied or locked, no column is empty, and a
\* run of two or more cards can still be moved
C15_Witness ==
    /\ Live
    /\ \A f \in CellIdx : ~is_empty(board.free_cells[f])
    /\ \A c \in ColIdx : board.columns[c] /= <<>>
    /\ \E src_col \in ColIdx : \E start \in 0..MaxStart : \E dst_col \in ColIdx :
           /\ start + 1 < Len(board.columns[src_col])
           /\ move_stack(board, src_col, start, dst_col).res = "Ok"

\* C16  Auto-advance fixed point.  On every board, when auto_move has
\* returned, a second auto_move returns 0 and leaves the board unchanged,
\* and no column top and no free-cell card is both eligible for the
\* foundation and safe.
C16_AutoMoveFixedPoint ==
    Live =>
        LET r == auto_move(board)
            again == auto_move(r.board)
        IN /\ again.moved = 0
           /\ again.board = r.board
           /\ \A src \in Locations :
                  ~(can_move_to_foundation(r.board, src) /\ is_safe_to_auto(r.board, src))

\* auto_move has advanced at least two cards out of the same column, which
\* takes more than one pass, and a card that is eligible but not safe
\* remains on the board
C16_Witness ==
    /\ last.op = "auto_move"
    /\ \E c \in ColIdx : Len(prev.columns[c]) >= Len(board.columns[c]) + 2
    /\ \E src \in Locations :
           can_move_to_foundation(board, src) /\ ~is_safe_to_auto(board, src)
    /\ auto_move(board).moved = 0

\* the card the move recorded in log entry e took, on the board of that moment
MovedCard(e) == card_at(e.before, e.src)

\* log entry e commits the Flower while it is not yet placed, or a Numbered
\* card that is next on its foundation and is an ace or at most one above
\* the lowest of the three counters
SafeCommit(e) ==
    LET c == MovedCard(e) IN
    \/ c.kind = "Flower" /\ ~e.before.flower_placed
    \/ /\ c.kind = "Numbered"
       /\ e.before.foundations[suit_index(c.suit)] = c.value - 1
       /\ \/ c.value = 1
          \/ \A i \in FoundIdx : c.value <= e.before.foundations[i] + 1

IsPrefix(p, q) == Len(p) <= Len(q) /\ SubSeq(q, 1, Len(p)) = p

\* C17  Auto-advance only commits safe cards.  Every card auto_move sends
\* to the foundation is, at the moment it is moved, the Flower with the
\* flower not yet placed, or a Numbered(s,v) with foundations[s] = v-1 and
\* (v = 1 or v <= lowest counter + 1).  auto_move removes no Dragon, moves
\* no card between columns and free cells, and leaves every DragonLocked
\* slot as it is: each column keeps a prefix of its cards, each free cell
\* keeps its state or gives up its card, and the cards that left are
\* exactly the committed ones.
C17_AutoMoveSafe ==
    last.op = "auto_move" =>
        LET r == auto_move(prev) IN
        /\ Len(r.log) = last.n
        /\ \A k \in 1..Len(r.log) : SafeCommit(r.log[k])
        /\ \A c \in ColIdx :
               /\ IsPrefix(board.columns[c], prev.columns[c])
               /\ \A k \in (Len(board.columns[c]) + 1)..Len(prev.columns[c]) :
                      prev.columns[c][k].kind /= "Dragon"
        /\ \A f \in CellIdx :
               \/ board.free_cells[f] = prev.free_cells[f]
               \/ /\ prev.free_cells[f].tag = "Card"
                  /\ prev.free_cells[f].card.kind /= "Dragon"
                  /\ board.free_cells[f] = Empty
        /\ last.n = Cardinality(Positions(prev)) - Cardinality(Positions(board))
                    + Cardinality({f \in CellIdx :
                                     board.free_cells[f] /= prev.free_cells[f]})

\* auto_move has committed a card from a free cell and a Numbered card of
\* value 2, on a board that has a DragonLocked cell
C17_Witness ==
    /\ last.op = "auto_move"
    /\ \E f \in CellIdx : prev.free_cells[f].tag = "DragonLocked"
    /\ \E k \in 1..Len(auto_move(prev).log) :
           auto_move(prev).log[k].src.kind = "FreeCell"
    /\ \E k \in 1..Len(auto_move(prev).log) :
           MovedCard(auto_move(prev).log[k]).value = 2

FoundationSum(b) == b.foundations[0] + b.foundations[1] + b.foundations[2]
FlowerCount(b) == IF b.flower_placed THEN 1 ELSE 0

\* C18  Auto-advance terminates and counts correctly.  On every board
\* reached from a valid deal auto_move returns, and the value it returns is
\* the number of cards it advanced: the increase of the sum of the three
\* foundation counters, plus one if it placed the flower.  The value never
\* exceeds 28 (27 Numbered cards and the Flower).
C18_AutoMoveCount ==
    Live =>
        LET r == auto_move(board) IN
        /\ r.moved = FoundationSum(r.board) - FoundationSum(board)
                     + FlowerCount(r.board) - FlowerCount(board)
        /\ r.moved = Len(r.log)
        /\ r.moved <= 9 * NUM_FOUNDATIONS + 1

\* auto_move has returned 5 after placing the flower and four Numbered
\* cards over several passes
C18_Witness ==
    /\ last.op = "auto_move" /\ last.n = 5
    /\ board.flower_placed /\ ~prev.flower_placed
    /\ FoundationSum(board) = FoundationSum(prev) + 4

\* ------------------------------------------------------------------------
\* The win predicate applied to end-game boards
\* ------------------------------------------------------------------------
\* Board's fields are public, so is_won can be handed any Board value.  The
\* boards drawn here are the won boards and their neighbours: counters at
\* most MaxShort below 9, either flower flag, every free cell Empty, locked
\* or holding a card, and at most one column holding up to MaxExtra cards.
LeftOver == {B(9), GD}
LeftOverSeqs == UNION {[1..n -> LeftOver] : n \in 1..MaxExtra}
EndColumns ==
    {[c \in ColIdx |-> <<>>]}
      \cup {[c \in ColIdx |-> IF c = k THEN q ELSE <<>>] :
               k \in ColIdx, q \in LeftOverSeqs}
EndCells ==
    [CellIdx -> {Empty, CardCell(B(9))} \cup {DragonLocked(s) : s \in Suits}]
EndBoards ==
    [columns : EndColumns,
     free_cells : EndCells,
     foundations : [FoundIdx -> (9 - MaxShort)..9],
     flower_placed : BOOLEAN]

InitWon ==
    /\ deck = full_deck
    /\ board \in EndBoards
    /\ prev = board
    /\ last = Call("deal", "Ok", NoLoc, NoLoc, 0, "None", 0)
    /\ merged = {}
    /\ steps = 0
    /\ history = <<>>
    /\ pc = "api"

\* the shell's call of is_won; the answer is kept in last.n (1 for true)
IsWon ==
    /\ last.op /= "is_won"
    /\ last' = Call("is_won", "Ok", NoLoc, NoLoc, 0, "None",
                    IF is_won(board) THEN 1 ELSE 0)
    /\ prev' = board
    /\ steps' = steps + 1
    /\ UNCHANGED <<deck, board, merged, history, pc>>

NextWon == IsWon

SpecWon == InitWon /\ [][NextWon]_vars

\* the four conditions of a won game
AllFoundationsFull(b) == \A i \in FoundIdx : b.foundations[i] = 9
AllColumnsEmpty(b) == \A c \in ColIdx : b.columns[c] = <<>>
NoCardInCell(b) == \A f \in CellIdx : b.free_cells[f].tag /= "Card"
AllFour(b) ==
    AllFoundationsFull(b) /\ b.flower_placed /\ AllColumnsEmpty(b) /\ NoCardInCell(b)

\* the boards that differ from b in a single one of the four conditions
SingleChanges(b) ==
    {[b EXCEPT !.foundations[i] = 9 - d] : i \in FoundIdx, d \in 1..MaxShort}
      \cup {[b EXCEPT !.flower_placed = FALSE]}
      \cup {[b EXCEPT !.columns[c] = <<x>>] : c \in ColIdx, x \in LeftOver}
      \cup {[b EXCEPT !.free_cells[f] = CardCell(x)] : f \in CellIdx, x \in LeftOver}

\* C19  Win predicate.  is_won is true if and only if all three foundation
\* counters equal 9, the flower is placed, all 8 columns are empty and no
\* free cell is in state Card.  From a board satisfying all four, lowering
\* one counter, unplacing the flower, putting one card in a column or one
\* plain card in a free cell makes is_won false.
C19_WinPredicate ==
    last.op = "is_won" =>
        /\ last.n = 1 <=> AllFour(board)
        /\ AllFour(board) => \A b \in SingleChanges(board) : ~is_won(b)

\* is_won has answered false on a board whose only flaw is one plain card
\* in a free cell, next to an Empty and a locked one
C19_Witness ==
    /\ last.op = "is_won" /\ last.n = 0
    /\ AllFoundationsFull(board) /\ board.flower_placed /\ AllColumnsEmpty(board)
    /\ \E f \in CellIdx, g \in CellIdx, h \in CellIdx :
           /\ board.free_cells[f].tag = "Card"
           /\ board.free_cells[g].tag = "Empty"
           /\ board.free_cells[h].tag = "DragonLocked"

\* C20  No crash on illegal input.  With column indices in 0..8, free-cell
\* indices in 0..3 and a board reached from a valid deal, no call of
\* move_card, move_to_foundation, move_stack, merge_dragons or auto_move
\* panics (a failing unwrap after validation, the expect of merge_dragons,
\* the unreachable!() of move_to_foundation): every call made has returned
\* Ok or Err, and every call that could be made next would.
C20_NoPanic ==
    /\ last.res \in {"Ok", "Err"}
    /\ Live =>
         /\ \A src \in Locations, dst \in Locations :
                move_card(board, src, dst).res \in {"Ok", "Err"}
         /\ \A src \in Locations :
                move_to_foundation(board, src).res \in {"Ok", "Err"}
         /\ \A src_col \in ColIdx, dst_col \in ColIdx : \A start \in 0..MaxStart :
                move_stack(board, src_col, start, dst_col).res \in {"Ok", "Err"}
         /\ \A s \in Suits : merge_dragons(board, s).res \in {"Ok", "Err"}
         /\ ~auto_move(board).panic

\* requests that would hit a panic if validation let them through: on a
\* board with a locked cell, four exposed dragons of another suit and no
\* free cell to receive their lock, the merge and the moves out of the
\* locked cell are rejected
C20_Witness ==
    /\ Live
    /\ \E f \in CellIdx : \E s \in Suits :
           /\ board.free_cells[f].tag = "DragonLocked"
           /\ Cardinality(ExposedDragons(board, s)) = 4
           /\ ~ReceivingSlot(board, s)
           /\ merge_dragons(board, s).res = "Err"
           /\ move_to_foundation(board, FreeCell(f)).res = "Err"
           /\ \A dst \in Locations : move_card(board, FreeCell(f), dst).res = "Err"

\* ------------------------------------------------------------------------
\* Play resumed from a late-game board
\* ------------------------------------------------------------------------
\* Game::init resumes the board of the last unfinished game from the save
\* file, so play also starts from boards met late in a game.  Two such
\* boards, each accounting for all 40 cards:
\*  LateA  Red dragons merged, foundations 8/8/7, the Flower still on a
\*         column, column 0 empty, Numbered, Dragon and Flower tops;
\*  LateB  Red and Green dragons merged, foundations 9/9/8, flower placed,
\*         the four Black dragons exposed, Black-9 under one of them.
LateA ==
    [columns |-> [c \in ColIdx |->
                    CASE c = 0 -> <<>>
                      [] c = 1 -> <<B(9), Flower>>
                      [] c = 2 -> <<R(9), B(8)>>
                      [] c = 3 -> <<G(9), BD>>
                      [] c = 4 -> <<GD>>
                      [] c = 5 -> <<GD>>
                      [] c = 6 -> <<BD, BD>>
                      [] c = 7 -> <<BD, GD>>],
     free_cells |-> [f \in CellIdx |->
                    CASE f = 0 -> DragonLocked("Red")
                      [] f = 1 -> CardCell(GD)
                      [] f = 2 -> Empty],
     foundations |-> [i \in FoundIdx |-> IF i = suit_index("Black") THEN 7 ELSE 8],
     flower_placed |-> FALSE]

LateB ==
    [columns |-> [c \in ColIdx |->
                    CASE c \in 0..2 -> <<BD>>
                      [] c = 3 -> <<B(9), BD>>
                      [] OTHER -> <<>>],
     free_cells |-> [f \in CellIdx |->
                    CASE f = 0 -> DragonLocked("Red")
                      [] f = 1 -> DragonLocked("Green")
                      [] f = 2 -> Empty],
     foundations |-> [i \in FoundIdx |-> IF i = suit_index("Black") THEN 8 ELSE 9],
     flower_placed |-> TRUE]

LateBoards == {LateA, LateB}

LockedSuits(b) == {s \in Suits : \E f \in CellIdx : b.free_cells[f] = DragonLocked(s)}

InitLate ==
    /\ deck = full_deck
    /\ board \in LateBoards
    /\ prev = board
    /\ last = Call("resume", "Ok", NoLoc, NoLoc, 0, "None", 0)
    /\ merged = LockedSuits(board)
    /\ steps = 0
    /\ history = <<>>
    /\ pc = "api"

SpecLate == InitLate /\ [][Next]_vars

\* ------------------------------------------------------------------------
\* C21  Foundation range.  In every state reached by board operations each
\* of the three foundation counters is between 0 and 9 inclusive, so the
\* u8 counter and the comparison against foundations[s] + 1 stay far below
\* 255.
C21_FoundationRange ==
    \A i \in FoundIdx : board.foundations[i] \in 0..9

\* a counter has been raised from 8 to 9, and another one already at 9 has
\* gone through the call
C21_Witness ==
    /\ last.op \in {"move_to_foundation", "auto_move"}
    /\ \E i \in FoundIdx : prev.foundations[i] = 8 /\ board.foundations[i] = 9
    /\ \E i \in FoundIdx : prev.foundations[i] = 9

\* ------------------------------------------------------------------------
\* the heights k of column col at which the card at height k+1 does not
\* stack legally on the card at height k (heights counted from 1)
IllegalAdjacencies(b, col) ==
    {k \in 1..(Len(b.columns[col]) - 1) :
        ~can_stack_on(b.columns[col][k + 1], b.columns[col][k])}

\* C22  Legal moves never create an illegal adjacency.  In every state,
\* two vertically adjacent cards of a column of which the upper does not
\* stack legally on the lower lie at the same two heights of the same
\* column in the deal.  Consequently a card that a move_card or move_stack
\* puts on a non-empty column is a Numbered card arriving on a Numbered
\* card: no Dragon or Flower is placed on another card and nothing is
\* placed on a Dragon or the Flower.
C22_NoIllegalAdjacency ==
    /\ Live =>
         LET dealt == deal_from_deck(deck) IN
         \A col \in ColIdx : \A k \in IllegalAdjacencies(board, col) :
             /\ k + 1 <= Len(dealt.columns[col])
             /\ dealt.columns[col][k] = board.columns[col][k]
             /\ dealt.columns[col][k + 1] = board.columns[col][k + 1]
    /\ (last.op \in {"move_card", "move_stack"} /\ last.res = "Ok"
          /\ last.dst.kind = "Column" /\ prev.columns[last.dst.idx] /= <<>>)
       => LET old == Len(prev.columns[last.dst.idx]) IN
          /\ board.columns[last.dst.idx][old].kind = "Numbered"
          /\ board.columns[last.dst.idx][old + 1].kind = "Numbered"
          /\ can_stack_on(board.columns[last.dst.idx][old + 1],
                          board.columns[last.dst.idx][old])

\* a column was emptied and a run of two cards has been moved onto it,
\* while other columns still hold illegal adjacencies of the deal
C22_Witness ==
    /\ last.op = "move_stack" /\ last.res = "Ok"
    /\ prev.columns[last.dst.idx] = <<>>
    /\ Len(board.columns[last.dst.idx]) = 2
    /\ \E col \in ColIdx : IllegalAdjacencies(board, col) /= {}
    /\ \E col \in ColIdx :
           /\ board.columns[col] /= <<>>
           /\ board.columns[col][1] /= deal_from_deck(deck).columns[col][1]

\* ------------------------------------------------------------------------
\* C23  Empty column accepts anything.  In every state where a column is
\* empty and another is not (column 0 and column 1 in particular), moving
\* the top card of the non-empty column onto the empty one succeeds
\* whatever the card is, both through move_card and through move_stack
\* with start at the top index, and the card arrives there.
C23_EmptyColumnAccepts ==
    Live =>
        \A e \in ColIdx, c \in ColIdx :
            (board.columns[e] = <<>> /\ board.columns[c] /= <<>>) =>
                LET top == column_top(board, c)
                    m == move_card(board, Column(c), Column(e))
                    ms == move_stack(board, c, Len(board.columns[c]) - 1, e)
                IN /\ m.res = "Ok" /\ m.board.columns[e] = <<top>>
                   /\ ms.res = "Ok" /\ ms.board.columns[e] = <<top>>

\* a Dragon has been moved onto an empty column by move_stack; a column is
\* empty again, and the tops of the others include the Flower, a Dragon and
\* a Numbered card
C23_Witness ==
    /\ last.op = "move_stack" /\ last.res = "Ok"
    /\ prev.columns[last.dst.idx] = <<>>
    /\ column_top(board, last.dst.idx).kind = "Dragon"
    /\ \E e \in ColIdx : board.columns[e] = <<>>
    /\ \A kind \in {"Flower", "Dragon", "Numbered"} :
           \E c \in ColIdx \ {last.dst.idx} : column_top(board, c).kind = kind

\* ------------------------------------------------------------------------
\* The stacking rule applied to every pair of cards
\* ------------------------------------------------------------------------
\* deck holds the two cards handed to can_stack_on: <<candidate, target>>,
\* each one of the 31 distinct cards (Numbered values are 1..9, card.rs:39)
InitStack ==
    /\ deck \in [1..2 -> CardTypes]
    /\ board = deal_from_deck(full_deck)
    /\ prev = board
    /\ last = Call("cards", "Ok", NoLoc, NoLoc, 0, "None", 0)
    /\ merged = {}
    /\ steps = 0
    /\ history = <<>>
    /\ pc = "api"

\* the call deck[1].can_stack_on(deck[2]); the answer is kept in last.n
CanStackOn ==
    /\ last.op = "cards"
    /\ last' = Call("can_stack_on", "Ok", NoLoc, NoLoc, 0, "None",
                    IF can_stack_on(deck[1], deck[2]) THEN 1 ELSE 0)
    /\ prev' = board
    /\ steps' = steps + 1
    /\ UNCHANGED <<deck, board, merged, history, pc>>

NextStack == CanStackOn

SpecStack == InitStack /\ [][NextStack]_vars

\* C24  Stacking rule.  For every pair of cards (c1,c2), can_stack_on(c1,c2)
\* is true if and only if both are Numbered, their suits differ and c1's
\* value plus 1 equals c2's value; it is false whenever either card is a
\* Dragon or the Flower.
C24_StackingRule ==
    last.op = "can_stack_on" =>
        LET c1 == deck[1]
            c2 == deck[2]
        IN /\ last.n = 1 <=> /\ c1 \in {Numbered(s, v) : s \in Suits, v \in 1..9}
                             /\ c2 \in {Numbered(s, v) : s \in Suits, v \in 1..9}
                             /\ c1.suit /= c2.suit
                             /\ c1.value + 1 = c2.value
           /\ (c1.kind \in {"Dragon", "Flower"} \/ c2.kind \in {"Dragon", "Flower"})
                  => last.n = 0

\* the rule has refused a Numbered card one below a Numbered card of its
\* own suit
C24_Witness ==
    /\ last.op = "can_stack_on" /\ last.n = 0
    /\ deck[1].kind = "Numbered" /\ deck[2].kind = "Numbered"
    /\ deck[1].suit = deck[2].suit
    /\ deck[1].value + 1 = deck[2].value

\* ------------------------------------------------------------------------
\* Dealing from a given deck
\* ------------------------------------------------------------------------
\* the deck d cut after its first k cards
Rotate(d, k) == SubSeq(d, k + 1, Len(d)) \o SubSeq(d, 1, k)

FullDecks == {Rotate(d, k) : d \in Decks \cup {full_deck}, k \in 0..(DECK_SIZE - 1)}

Surplus == UNION {[1..n -> {Flower, R(1)}] : n \in 1..MaxOff}

\* full decks in many orders, the same decks with up to MaxOff cards
\* missing, and with up to MaxOff cards too many
DealInputs ==
    FullDecks
      \cup {SubSeq(d, 1, DECK_SIZE - n) : d \in FullDecks, n \in 1..MaxOff}
      \cup {d \o x : d \in Decks, x \in Surplus}

InitDeal ==
    /\ deck \in DealInputs
    /\ board = NoBoard
    /\ prev = board
    /\ last = Call("deck", "Ok", NoLoc, NoLoc, 0, "None", 0)
    /\ merged = {}
    /\ steps = 0
    /\ history = <<>>
    /\ pc = "api"

\* the call Board::deal_from_deck(deck)
Deal ==
    /\ last.op = "deck"
    /\ LET r == deal_from_deck_checked(deck) IN
         /\ board' = r.board
         /\ last' = Call("deal_from_deck", r.res, NoLoc, NoLoc, 0, "None", 0)
    /\ prev' = board
    /\ steps' = steps + 1
    /\ UNCHANGED <<deck, merged, history, pc>>

NextDeal == Deal

SpecDeal == InitDeal /\ [][NextDeal]_vars

\* C25  Deal layout.  deal_from_deck of a 40-card sequence puts the card at
\* input position i (from 0) into column i mod 8 at height i div 8, so
\* every column holds exactly 5 cards in input order; all three free cells
\* are Empty, all three foundation counters 0 and flower_placed false.
C25_DealLayout ==
    (last.op = "deal_from_deck" /\ last.res = "Ok") =>
        /\ \A i \in 0..(DECK_SIZE - 1) :
               /\ (i \div 8) + 1 \in DOMAIN board.columns[i % 8]
               /\ board.columns[i % 8][(i \div 8) + 1] = deck[i + 1]
        /\ \A c \in ColIdx : Len(board.columns[c]) = 5
        /\ \A f \in CellIdx : board.free_cells[f] = Empty
        /\ \A s \in FoundIdx : board.foundations[s] = 0
        /\ board.flower_placed = FALSE

\* a deal whose first column reads, from the bottom, input cards 0, 8, 16,
\* 24 and 32, all different and different from the next input card
C25_Witness ==
    /\ last.op = "deal_from_deck" /\ last.res = "Ok"
    /\ board.columns[0] = <<deck[1], deck[9], deck[17], deck[25], deck[33]>>
    /\ Cardinality({deck[1], deck[2], deck[9], deck[17], deck[25], deck[33]}) = 6

\* C26  Deal count check.  deal_from_deck produces a board only for a deck
\* of exactly 40 cards; for any other length its assertion fails and no
\* board is created.
C26_DealCountCheck ==
    last.op = "deal_from_deck" =>
        /\ last.res = "Ok" <=> Len(deck) = 40
        /\ Len(deck) /= 40 => (last.res = "Panic" /\ board = NoBoard)

\* a deal of 41 cards has been refused
C26_Witness ==
    /\ last.op = "deal_from_deck" /\ last.res = "Panic"
    /\ Len(deck) = 41

\* ------------------------------------------------------------------------
\* The Game shell (game.rs): commands, undo history, the loop of run
\* ------------------------------------------------------------------------
\* Command (command.rs); parse_command only yields column indices below 8
\* and free-cell indices below 3.  NewGame carries the deck deal_random
\* happens to shuffle.
ColumnToColumn(src, stack_start, dst) ==
    [kind |-> "ColumnToColumn", src |-> src, stack_start |-> stack_start, dst |-> dst]
ColumnToFreeCell(src_col, dst_cell) ==
    [kind |-> "ColumnToFreeCell", src_col |-> src_col, dst_cell |-> dst_cell]
FreeCellToColumn(src_cell, dst_col) ==
    [kind |-> "FreeCellToColumn", src_cell |-> src_cell, dst_col |-> dst_col]
ColumnToFoundation(src) == [kind |-> "ColumnToFoundation", src |-> src]
FreeCellToFoundation(src_cell) == [kind |-> "FreeCellToFoundation", src_cell |-> src_cell]
MergeDragonsCmd(suit) == [kind |-> "MergeDragons", suit |-> suit]
Undo == [kind |-> "Undo"]
Quit == [kind |-> "Quit"]
NewGame(d) == [kind |-> "NewGame", deck |-> d]
Help == [kind |-> "Help"]

MoveCommands == {"ColumnToColumn", "ColumnToFreeCell", "FreeCellToColumn",
                 "ColumnToFoundation", "FreeCellToFoundation", "MergeDragons"}

\* usize::saturating_sub
saturating_sub(a, b) == IF a >= b THEN a - b ELSE 0

\* Vec::clear that leaves the vector as it is
clear_keeps_all(h) == h

\* Vec::clear
clear(h) == <<>>

\* Vec::pop, the popped value dropped
pop(h) == IF h = <<>> THEN h ELSE SubSeq(h, 1, Len(h) - 1)

\* save_history that refuses the new snapshot once the history is full
save_history_keeps_oldest(h, b) ==
    IF Len(h) >= HISTORY_CAP THEN h ELSE Append(h, b)

save_history(h, b) ==
    LET pushed == Append(h, b) IN
    IF Len(pushed) > HISTORY_CAP THEN Tail(pushed) ELSE pushed

\* the outcome of Game::handle: the board, the undo history, whether the
\* command was carried out ("Err" where the renderer reports an error), and
\* whether the loop is to exit
Handled(b, h, res, quit) == [board |-> b, history |-> h, res |-> res, quit |-> quit]

\* the arms of handle with the snapshot taken after the Board operation
AfterBoardCall_snapshot_late(saved, r) ==
    IF r.res = "Ok"
    THEN Handled(r.board, Append(pop(saved), r.board), "Ok", FALSE)
    ELSE IF r.res = "Err" THEN Handled(r.board, pop(saved), "Err", FALSE)
    ELSE Handled(r.board, saved, "Panic", FALSE)

\* the arms of handle that save a snapshot, call a Board operation r and
\* pop the snapshot again when the operation is rejected
AfterBoardCall(saved, r) ==
    IF r.res = "Ok" THEN Handled(r.board, saved, "Ok", FALSE)
    ELSE IF r.res = "Err" THEN Handled(r.board, pop(saved), "Err", FALSE)
    ELSE Handled(r.board, saved, "Panic", FALSE)

handle(b, h, cmd) ==
    CASE cmd.kind = "Quit" -> Handled(b, h, "Ok", TRUE)
      [] cmd.kind = "Help" -> Handled(b, h, "Ok", FALSE)
      [] cmd.kind = "NewGame" -> Handled(deal_from_deck(cmd.deck), clear(h), "Ok", FALSE)
      [] cmd.kind = "Undo" ->
           IF h /= <<>> THEN Handled(h[Len(h)], pop(h), "Ok", FALSE)
           ELSE Handled(b, h, "Err", FALSE)
      [] cmd.kind = "ColumnToColumn" ->
           LET saved == save_history(h, b)
               col_len == Len(b.columns[cmd.src])
           IN IF col_len = 0 THEN Handled(b, pop(saved), "Err", FALSE)
              ELSE LET abs_idx == saturating_sub(col_len, 1 + cmd.stack_start)
                   IN AfterBoardCall(saved, move_stack(b, cmd.src, abs_idx, cmd.dst))
      [] cmd.kind = "ColumnToFreeCell" ->
           AfterBoardCall(save_history(h, b),
                          move_card(b, Column(cmd.src_col), FreeCell(cmd.dst_cell)))
      [] cmd.kind = "FreeCellToColumn" ->
           AfterBoardCall(save_history(h, b),
                          move_card(b, FreeCell(cmd.src_cell), Column(cmd.dst_col)))
      [] cmd.kind = "ColumnToFoundation" ->
           AfterBoardCall(save_history(h, b), move_to_foundation(b, Column(cmd.src)))
      [] cmd.kind = "FreeCellToFoundation" ->
           AfterBoardCall(save_history(h, b), move_to_foundation(b, FreeCell(cmd.src_cell)))
      [] cmd.kind = "MergeDragons" ->
           AfterBoardCall(save_history(h, b), merge_dragons(b, cmd.suit))

\* A game saved late and resumed (Game::init): Red and Green dragons
\* merged, foundations 6/6/6, flower placed, the 7s under Black dragons,
\* three runs of two cards and an empty column.  No card of it is ready for
\* the foundation, as on every board saved at the prompt.
LateC ==
    [columns |-> [c \in ColIdx |->
                    CASE c = 0 -> <<R(7), BD>>
                      [] c = 1 -> <<G(7), BD>>
                      [] c = 2 -> <<B(7), BD>>
                      [] c = 3 -> <<BD>>
                      [] c = 4 -> <<R(9), B(8)>>
                      [] c = 5 -> <<G(9), R(8)>>
                      [] c = 6 -> <<B(9), G(8)>>
                      [] c = 7 -> <<>>],
     free_cells |-> [f \in CellIdx |->
                    CASE f = 0 -> DragonLocked("Red")
                      [] f = 1 -> DragonLocked("Green")
                      [] f = 2 -> Empty],
     foundations |-> [i \in FoundIdx |-> 6],
     flower_placed |-> TRUE]

\* the boards of a player who keeps moving the lone Black dragon from
\* column 3 to column 7, on to free cell 2 and back to column 3
CycleBoard(k) ==
    LET onto7 == move_card(LateC, Column(3), Column(7)).board
        parked == move_card(onto7, Column(7), FreeCell(2)).board
    IN CASE k % 3 = 0 -> LateC
         [] k % 3 = 1 -> onto7
         [] k % 3 = 2 -> parked

\* the snapshots those moves leave behind, oldest first, and the lengths of
\* the histories resumed
ResumedHistory(n) == [k \in 1..n |-> CycleBoard(k - 1)]
ResumedLens == {0, HISTORY_CAP - 1, HISTORY_CAP}

InitGame ==
    /\ \/ /\ deck \in Decks
          /\ board = deal_from_deck(deck)
          /\ history = <<>>
       \/ /\ deck = full_deck
          /\ \E n \in ResumedLens :
                 board = CycleBoard(n) /\ history = ResumedHistory(n)
    /\ prev = board
    /\ last = Call("init", "Ok", NoLoc, NoLoc, 0, "None", 0)
    /\ merged = LockedSuits(board)
    /\ steps = 0
    /\ pc = "auto"

\* One command read at the prompt and dispatched by handle.  last records
\* the command, whether it was carried out, and in n the length of the undo
\* history before it; prev is the board before it.  The play is followed
\* on after commands that were carried out.
Enter(cmd, src, dst, start, suit) ==
    /\ pc = "prompt"
    /\ steps < MaxCmds
    /\ Live
    /\ LET r == handle(board, history, cmd) IN
         /\ board' = r.board
         /\ history' = r.history
         /\ last' = Call(cmd.kind, r.res, src, dst, start, suit, Len(history))
         /\ pc' = IF r.quit THEN "quit" ELSE "auto"
         /\ merged' = LockedSuits(r.board)
    /\ deck' = IF cmd.kind = "NewGame" THEN cmd.deck ELSE deck
    /\ prev' = board
    /\ steps' = steps + 1

CmdColumnToColumn ==
    \E src \in ColIdx, dst \in ColIdx : \E n \in 0..MaxDepth :
        Enter(ColumnToColumn(src, n, dst), Column(src), Column(dst), n, "None")
CmdColumnToFreeCell ==
    \E c \in ColIdx, f \in CellIdx :
        Enter(ColumnToFreeCell(c, f), Column(c), FreeCell(f), 0, "None")
CmdFreeCellToColumn ==
    \E f \in CellIdx, c \in ColIdx :
        Enter(FreeCellToColumn(f, c), FreeCell(f), Column(c), 0, "None")
CmdColumnToFoundation ==
    \E c \in ColIdx : Enter(ColumnToFoundation(c), Column(c), NoLoc, 0, "None")
CmdFreeCellToFoundation ==
    \E f \in CellIdx : Enter(FreeCellToFoundation(f), FreeCell(f), NoLoc, 0, "None")
CmdMergeDragons ==
    \E s \in Suits : Enter(MergeDragonsCmd(s), NoLoc, NoLoc, 0, s)
CmdUndo == Enter(Undo, NoLoc, NoLoc, 0, "None")
CmdNewGame == \E d \in Decks : Enter(NewGame(d), NoLoc, NoLoc, 0, "None")
CmdHelp == Enter(Help, NoLoc, NoLoc, 0, "None")
CmdQuit == Enter(Quit, NoLoc, NoLoc, 0, "None")

\* the auto_move that run makes before the first prompt and after every
\* command that did not quit
LoopAutoMove ==
    /\ pc = "auto"
    /\ board' = auto_move(board).board
    /\ pc' = "prompt"
    /\ UNCHANGED <<deck, prev, last, merged, steps, history>>

NextGame ==
    \/ CmdColumnToColumn \/ CmdColumnToFreeCell \/ CmdFreeCellToColumn
    \/ CmdColumnToFoundation \/ CmdFreeCellToFoundation \/ CmdMergeDragons
    \/ CmdUndo \/ CmdNewGame \/ CmdHelp \/ CmdQuit
    \/ LoopAutoMove

SpecGame == InitGame /\ [][NextGame]_vars

\* ------------------------------------------------------------------------
\* the number of cards a command took off the top of column c and the cards
\* it put on column c, read off the boards before and right after handle
\* (pc = "auto": the loop's auto_move has not run yet)
TakenFrom(c) == Len(prev.columns[c]) - Len(board.columns[c])
ArrivedOn(c) == SubSeq(board.columns[c], Len(prev.columns[c]) + 1, Len(board.columns[c]))

\* C27  Stack command size.  A `cc <src>:<N> <dst>` command (ColumnToColumn
\* with stack_start = N) that succeeds moves exactly N+1 cards from the top
\* of column src to column dst, for every N and every source column length.
C27_StackCommandSize ==
    (pc = "auto" /\ last.op = "ColumnToColumn" /\ last.res = "Ok") =>
        /\ TakenFrom(last.src.idx) = last.start + 1
        /\ Len(ArrivedOn(last.dst.idx)) = last.start + 1

\* what holds instead: the command moves min(N+1, length of src) cards, the
\* whole column when N+1 exceeds its length
C27_StackCommandClamped ==
    (pc = "auto" /\ last.op = "ColumnToColumn" /\ last.res = "Ok") =>
        LET len == Len(prev.columns[last.src.idx])
            size == IF last.start + 1 <= len THEN last.start + 1 ELSE len
        IN /\ TakenFrom(last.src.idx) = size
           /\ ArrivedOn(last.dst.idx) = SubSeq(prev.columns[last.src.idx], len - size + 1, len)

\* `cc <src>:2 <dst>` has succeeded on a column of two cards
C27_Witness ==
    /\ pc = "auto" /\ last.op = "ColumnToColumn" /\ last.res = "Ok"
    /\ last.start = 2
    /\ Len(prev.columns[last.src.idx]) = 2
    /\ TakenFrom(last.src.idx) = 2

\* ------------------------------------------------------------------------
\* C28  Undo history cap.  After any sequence of shell commands the undo
\* history holds at most 64 snapshots.  A command that is carried out
\* pushes the board it was entered on; when that push would make the
\* history 65 long, the oldest snapshot is the one discarded and the 64
\* most recent remain in order.
C28_HistoryCap ==
    [][ /\ Len(history') <= 64
        /\ (pc = "prompt" /\ last'.op \in MoveCommands /\ last'.res = "Ok") =>
               history' = IF Len(history) = 64
                          THEN Tail(history) \o <<board>>
                          ELSE history \o <<board>> ]_vars

\* a command was carried out on a full history: the board it was entered
\* on is the newest snapshot and the former second oldest is the oldest
C28_Witness ==
    /\ pc = "auto" /\ last.op \in MoveCommands /\ last.res = "Ok"
    /\ last.n = 64
    /\ Len(history) = 64
    /\ history[64] = prev
    /\ history[1] = ResumedHistory(64)[2]
    /\ history[1] /= ResumedHistory(64)[1]

\* ------------------------------------------------------------------------
\* C29  A rejected command leaves the undo history untouched.  When a move
\* command is rejected by the board or because the source column is empty,
\* the undo history after Game::handle has the same length and the same
\* snapshots in the same order as before the command, including when the
\* history already holds 64 snapshots.
C29_RejectedKeepsHistory ==
    [][ (pc = "prompt" /\ last'.op \in MoveCommands /\ last'.res = "Err") =>
            history' = history ]_vars

\* what holds instead: the history is untouched while it holds fewer than
\* 64 snapshots; a command rejected on a full history costs the oldest one
C29_RejectedBelowCap ==
    [][ (pc = "prompt" /\ last'.op \in MoveCommands /\ last'.res = "Err") =>
            history' = IF Len(history) < HISTORY_CAP THEN history ELSE Tail(history) ]_vars

\* a `cc` from an empty column was rejected on a history of 64 snapshots,
\* of which 63 are left
C29_Witness ==
    /\ pc = "auto" /\ last.op = "ColumnToColumn" /\ last.res = "Err"
    /\ prev.columns[last.src.idx] = <<>>
    /\ last.n = 64
    /\ Len(history) = 63
    /\ history = Tail(ResumedHistory(64))

\* ------------------------------------------------------------------------
\* C30  Undo round trip.  In the shell loop, Undo entered after a move
\* command that was carried out restores the board to exactly the board
\* that command was entered on (undoing the move and the auto-advance that
\* followed it) and takes that snapshot off the history, and the auto_move
\* the loop runs next moves 0 cards.  The loop's changes to the live board
\* leave the stored snapshots as they are.  Undo with an empty history
\* leaves the board unchanged.
C30_UndoRoundTrip ==
    [][ /\ (pc = "prompt" /\ last'.op = "Undo"
              /\ last.op \in MoveCommands /\ last.res = "Ok") =>
               /\ last'.res = "Ok"
               /\ board' = prev
               /\ history' = SubSeq(history, 1, Len(history) - 1)
               /\ auto_move(board').moved = 0
        /\ (pc = "prompt" /\ last'.op = "Undo" /\ history = <<>>) =>
               /\ last'.res = "Err"
               /\ board' = board
               /\ history' = <<>>
        /\ pc = "auto" => history' = history ]_vars

\* in a fresh game a dragon merge and the auto-advance after it, which
\* placed the flower, have been undone: the board is again the one of the
\* first prompt, with no locked cell and the flower on its column
C30_Witness ==
    /\ pc = "prompt" /\ last.op = "Undo" /\ last.res = "Ok"
    /\ steps = 2 /\ last.n = 1 /\ history = <<>>
    /\ deck \in Decks
    /\ board = auto_move(deal_from_deck(deck)).board
    /\ \E f \in CellIdx : prev.free_cells[f].tag = "DragonLocked"
    /\ \A f \in CellIdx : board.free_cells[f] = Empty
    /\ prev.flower_placed /\ ~board.flower_placed


\* ------------------------------------------------------------------------
\* C31 - dragon accounting
\* ------------------------------------------------------------------------
LockedCells(b, s) == {f \in CellIdx : b.free_cells[f] = DragonLocked(s)}
DragonsOnTable(b, s) == InColumns(b, Dragon(s)) + InCells(b, Dragon(s))
CardsOnTable(b) ==
    Cardinality(Positions(b))
      + Cardinality({f \in CellIdx : b.free_cells[f].tag = "Card"})
AllLockedCells(b) == {f \in CellIdx : b.free_cells[f].tag = "DragonLocked"}

\* C31: in every state reached from a deal, each suit has at most one
\* DragonLocked cell, its Dragon cards in columns and free cells number 4
\* when no cell is locked for it and 0 when one is, and the cards in columns
\* and free cells, the foundation counters, the flower flag and 4 per locked
\* cell add up to 40.
C31_DragonAccounting ==
    /\ \A s \in Suits :
         /\ Cardinality(LockedCells(board, s)) <= 1
         /\ DragonsOnTable(board, s) = IF LockedCells(board, s) = {} THEN 4 ELSE 0
    /\ CardsOnTable(board) + FoundationSum(board) + FlowerCount(board)
         + 4 * Cardinality(AllLockedCells(board)) = DECK_SIZE

\* a merge has locked one suit while the other two still have their four
\* dragons on the table, and cards have gone to the foundations
C31_Witness ==
    /\ last.op = "merge_dragons" /\ last.res = "Ok"
    /\ Cardinality(AllLockedCells(board)) = 1
    /\ \E s \in Suits : LockedCells(board, s) = {} /\ DragonsOnTable(board, s) = 4
    /\ FoundationSum(board) + FlowerCount(board) > 0
    /\ Cardinality(AllLockedCells(prev)) = 0


\* ------------------------------------------------------------------------
\* C32 - a won board has merged all three suits
\* ------------------------------------------------------------------------
\* C32: in every state reached by play in which is_won is true, the three
\* free cells are DragonLocked(Red), DragonLocked(Green) and
\* DragonLocked(Black) in some order; none of them is Empty.
C32_WonAllMerged ==
    is_won(board) =>
      /\ \A s \in Suits : \E f \in CellIdx : board.free_cells[f] = DragonLocked(s)
      /\ \A f \in CellIdx : ~is_empty(board.free_cells[f])
      /\ \A f, g \in CellIdx : f /= g => board.free_cells[f] /= board.free_cells[g]

\* play has just won the game: the last dragons were merged and the last
\* numbered card then went to its foundation
C32_Witness ==
    /\ is_won(board)
    /\ ~is_won(prev)
    /\ last.res = "Ok" /\ last.op \in {"move_to_foundation", "auto_move"}
    /\ steps >= 2
    /\ merged = Suits


\* ------------------------------------------------------------------------
\* C33 - a one-card stack move is a single-card move
\* ------------------------------------------------------------------------
\* C33: on every board reached by play and for all columns a and b,
\* move_stack(a, len(a) - 1, b) succeeds exactly when
\* move_card(Column(a), Column(b)) succeeds, and both then leave the same
\* board.  For an empty column a, where len(a) - 1 is no index, move_card is
\* rejected and so is move_stack at every start index.
C33_SingleStackIsMoveCard ==
    Live =>
      \A a \in ColIdx, b \in ColIdx :
          LET m == move_card(board, Column(a), Column(b)) IN
          IF board.columns[a] /= <<>>
          THEN LET ms == move_stack(board, a, Len(board.columns[a]) - 1, b)
               IN /\ ms.res \in {"Ok", "Err"} /\ m.res \in {"Ok", "Err"}
                  /\ ms.res = m.res
                  /\ ms.board = m.board
          ELSE /\ m = Result("Err", board)
               /\ \A i \in 0..MaxStart : move_stack(board, a, i, b) = Result("Err", board)

\* a one-card move_stack has just succeeded and move_card would have made
\* the same board, from a board that had an empty column; on the board
\* reached some pairs of distinct non-empty columns are accepted by both
\* calls and others are rejected by both
C33_Witness ==
    /\ last.op = "move_stack" /\ last.res = "Ok"
    /\ last.start = Len(prev.columns[last.src.idx]) - 1
    /\ move_card(prev, Column(last.src.idx), Column(last.dst.idx)) = Result("Ok", board)
    /\ \E a \in ColIdx, b \in ColIdx :
           /\ a /= b /\ board.columns[a] /= <<>> /\ board.columns[b] /= <<>>
           /\ move_card(board, Column(a), Column(b)).res = "Ok"
           /\ move_stack(board, a, Len(board.columns[a]) - 1, b).res = "Ok"
    /\ \E a \in ColIdx, b \in ColIdx :
           /\ a /= b /\ board.columns[a] /= <<>>
           /\ move_card(board, Column(a), Column(b)).res = "Err"
           /\ move_stack(board, a, Len(board.columns[a]) - 1, b).res = "Err"
    /\ \E a \in ColIdx : prev.columns[a] = <<>>


\* ------------------------------------------------------------------------
\* C34 - auto-advance does not depend on the scan order
\* ------------------------------------------------------------------------
\* one pass of auto_move's for loop over the locations of order instead of
\* sources, from position i on
RECURSIVE auto_pass_in(_, _, _, _)
auto_pass_in(order, b, i, moved) ==
    IF i > Len(order)
    THEN [board |-> b, moved |-> moved]
    ELSE IF can_move_to_foundation(b, order[i]) /\ is_safe_to_auto(b, order[i])
         THEN auto_pass_in(order, move_to_foundation(b, order[i]).board, i + 1, moved + 1)
         ELSE auto_pass_in(order, b, i + 1, moved)

\* the loop stopped after its first pass
auto_loop_in_single_pass(order, b, moved) == auto_pass_in(order, b, 1, moved)

\* auto_move's loop with the passes made in the given order
RECURSIVE auto_loop_in(_, _, _)
auto_loop_in(order, b, moved) ==
    LET r == auto_pass_in(order, b, 1, moved) IN
    IF r.moved = moved THEN r
    ELSE auto_loop_in(order, r.board, r.moved)

auto_move_in(order, b) == auto_loop_in(order, b, 0)

\* scan orders tried: sources cut at every position, forwards and backwards
ScanOrders ==
    {Rotate(sources, k) : k \in 0..(Len(sources) - 1)}
      \cup {Reverse(Rotate(sources, k)) : k \in 0..(Len(sources) - 1)}

\* the locations whose card auto_move would commit on board b
AutoEnabled(b) ==
    {src \in Locations : can_move_to_foundation(b, src) /\ is_safe_to_auto(b, src)}

\* every outcome <<board, count>> of committing enabled cards one at a time,
\* in any order whatever, until none is enabled
RECURSIVE AutoOutcomes(_, _)
AutoOutcomes(b, n) ==
    IF AutoEnabled(b) = {} THEN {<<b, n>>}
    ELSE UNION {AutoOutcomes(move_to_foundation(b, src).board, n + 1) :
                  src \in AutoEnabled(b)}

\* C34: on every board reached by play, auto_move's final board and returned
\* count are those of the same loop run over any other scan order of the
\* eight column tops and three free cells, and of any sequence of commits
\* that stops only when no card is eligible and safe.
C34_AutoMoveOrderIndependent ==
    Live =>
      LET r == auto_move(board) IN
        /\ \A order \in ScanOrders :
               auto_move_in(order, board) = [board |-> r.board, moved |-> r.moved]
        /\ AutoOutcomes(board, 0) = {<<r.board, r.moved>>}

\* auto_move has advanced several cards from a board on which a single pass
\* in another scan order commits different cards than a pass over sources,
\* so the passes differ while the results agree
C34_Witness ==
    /\ last.op = "auto_move" /\ last.res = "Ok" /\ last.n >= 3
    /\ \E order \in ScanOrders :
           auto_pass_in(order, prev, 1, 0) /= auto_pass_in(sources, prev, 1, 0)
    /\ Cardinality(AutoEnabled(prev)) >= 2
    /\ \A order \in ScanOrders :
           auto_move_in(order, prev) = [board |-> board, moved |-> last.n]


\* ------------------------------------------------------------------------
\* C35 - a new game resets the undo history
\* ------------------------------------------------------------------------
\* C35: a NewGame command leaves a freshly dealt board and an empty undo
\* history; an empty history stays empty through every step that is not an
\* accepted move command (the loop's auto_move, Help, rejected moves, Undo
\* itself); and Undo entered on an empty history, in particular at the
\* first prompt after NewGame, reports nothing to undo and leaves the board
\* of the new game in place.
C35_NewGameResetsUndo ==
    [][ /\ (pc = "prompt" /\ last'.op = "NewGame") =>
              /\ last'.res = "Ok"
              /\ history' = <<>>
              /\ board' = deal_from_deck(deck')
        /\ (history = <<>>
              /\ ~(pc = "prompt" /\ last'.op \in MoveCommands /\ last'.res = "Ok")) =>
              history' = <<>>
        /\ (pc = "prompt" /\ history = <<>> /\ last'.op = "Undo") =>
              /\ last'.res = "Err"
              /\ board' = board
        /\ (pc = "prompt" /\ last.op = "NewGame" /\ last'.op = "Undo") =>
              /\ last'.res = "Err"
              /\ history' = <<>>
              /\ board' = auto_move(deal_from_deck(deck)).board
      ]_vars

\* the prompt after a NewGame that abandoned a game with a full undo
\* history: the history is empty, the board is the new deal after its
\* auto-advance and differs from every board of the abandoned game, and the
\* next command may be Undo, which handle answers with an error
C35_Witness ==
    /\ pc = "prompt" /\ last.op = "NewGame" /\ last.res = "Ok"
    /\ last.n = HISTORY_CAP
    /\ steps < MaxCmds
    /\ history = <<>>
    /\ board = auto_move(deal_from_deck(deck)).board
    /\ prev \in {CycleBoard(k) : k \in 0..2}
    /\ \A k \in 0..2 : board /= CycleBoard(k)
    /\ handle(board, history, Undo) = Handled(board, <<>>, "Err", FALSE)
====
